---------------------------- MODULE Spec2Model ----------------------------
(***************************************************************************)
(* Reed-Muller codes (sage/coding/ReedMullerCode.py): construction of the  *)
(* q-ary and binary code objects, the vector encoder's generator matrix,   *)
(* the polynomial encoder and the recursive multivariate interpolation     *)
(* that inverts it.                                                        *)
(*                                                                         *)
(* The fields of the model are prime fields: an element of GF(q) is its    *)
(* residue in 0..q-1.  A polynomial of a ring in m variables is the set of *)
(* its terms [e |-> exponent tuple, c |-> coefficient], with no zero       *)
(* coefficient and no exponent twice, so that equality of polynomials is   *)
(* equality of sets.  Variable x_i of the source is position i+1 of an     *)
(* exponent tuple or of a point.                                           *)
(***************************************************************************)
EXTENDS Integers, Sequences, FiniteSets, TLC

(***************************************************************************)
(* Bounds of the model.                                                    *)
(***************************************************************************)
MaxVars == 2        \* numberOfVariable is drawn from 0..MaxVars
MaxOrder == 3       \* order is drawn from -1..MaxOrder
MaxTerms == 2       \* a message has at most MaxTerms non-zero coefficients
MaxTableWeight == 1 \* a table to decode has at most MaxTableWeight non-zero entries
MaxN == 5           \* binomialSum is called with n in 0..MaxN and k in -1..MaxN
MaxCallers == 2     \* at most MaxCallers calls of the encoders' methods are in progress
MaxDimension == 6   \* the codewords of a code are listed when its dimension is at most MaxDimension

\* the sizes of the base fields codes are built over
FieldSizes == {2, 3}

(***************************************************************************)
(* The finite field GF(q), q prime: arithmetic and finiteField.list().     *)
(***************************************************************************)
FAdd(q, a, b) == (a + b) % q

FMul(q, a, b) == (a * b) % q

FNeg(q, a) == (q - a) % q

FInv(q, a) == CHOOSE b \in 1..(q - 1) : FMul(q, a, b) = 1

RECURSIVE FPow(_, _, _)
FPow(q, a, n) == IF n = 0 THEN 1 ELSE FMul(q, a, FPow(q, a, n - 1))

\* a list built by a function constructor, as an explicit tuple
List(f) == f \o <<>>

\* finiteField.list() of a prime field: 0, 1, .., q-1
FieldList(q) == List([i \in 1..q |-> i - 1])

RECURSIVE IntPow(_, _)
IntPow(b, n) == IF n = 0 THEN 1 ELSE b * IntPow(b, n - 1)

Min(a, b) == IF a < b THEN a ELSE b


(***************************************************************************)
(* Dimension formulas.                                                     *)
(***************************************************************************)
\* binomial(n, k) of sage.functions.other: 0 outside 0 <= k <= n for n >= 0
RECURSIVE binomial(_, _)
binomial(n, k) ==
    IF k < 0 \/ k > n THEN 0
    ELSE IF k = 0 THEN 1
    ELSE (binomial(n, k - 1) * (n - k + 1)) \div k

\* the division made before the multiplication
binomialSumStep_late(n, i, nCi) == (n - i) * (nCi \div (i + 1))

\* nCi=((n-i)*nCi)/(i+1)
binomialSumStep(n, i, nCi) == ((n - i) * nCi) \div (i + 1)

\* what the division of ((n-i)*nCi) by (i+1) leaves
binomialSumRemainder(n, i, nCi) == ((n - i) * nCi) % (i + 1)

\* the loop of binomialSum: i runs through range(k)
RECURSIVE binomialSumLoop(_, _, _, _, _)
binomialSumLoop(n, k, i, nCi, s) ==
    IF i >= k THEN s
    ELSE LET nCi2 == binomialSumStep(n, i, nCi)
         IN binomialSumLoop(n, k, i + 1, nCi2, nCi2 + s)

binomialSum(n, k) == binomialSumLoop(n, k, 0, 1, 1)

(***************************************************************************)
(* The evaluation domain and the monomial basis.                           *)
(***************************************************************************)
\* Tuples(S, k).list(): the first coordinate varies fastest
Tuples(S, k) ==
    LET q == Len(S)
    IN List([i \in 1..IntPow(q, k) |->
          List([j \in 1..k |-> S[(((i - 1) \div IntPow(q, j - 1)) % q) + 1]])])

RECURSIVE SeqSum(_)
SeqSum(s) == IF Len(s) = 0 THEN 0 ELSE Head(s) + SeqSum(Tail(s))

\* the sorted list with cnt[i+1] copies of index i
RECURSIVE Repeat(_, _)
Repeat(x, n) == IF n <= 0 THEN <<>> ELSE <<x>> \o Repeat(x, n - 1)

RECURSIVE CountsToList(_, _)
CountsToList(cnt, i) ==
    IF i > Len(cnt) THEN <<>>
    ELSE Repeat(i - 1, cnt[i]) \o CountsToList(cnt, i + 1)

LexLess(s, t) ==
    \E i \in 1..Len(s) : s[i] < t[i] /\ \A j \in 1..(i - 1) : s[j] = t[j]

SortLex(S) ==
    List([i \in 1..Cardinality(S) |->
        CHOOSE s \in S : Cardinality({t \in S : LexLess(t, s)}) = i - 1])

\* the submultisets of size k of the multiset with mult copies of each of
\* 0..m-1, each as a sorted list, in lexicographic order
SubMultisetsOfSize(m, mult, k) ==
    SortLex({CountsToList(cnt, 1) :
                cnt \in {f \in [1..m -> 0..mult] : SeqSum(f) = k}})

RECURSIVE SubMultisetsFrom(_, _, _)
SubMultisetsFrom(m, mult, k) ==
    IF k > m * mult THEN <<>>
    ELSE SubMultisetsOfSize(m, mult, k) \o SubMultisetsFrom(m, mult, k + 1)

\* Subsets(range(m)*(q-1), submultiset=True): graded by size
Subsets(m, mult) ==
    IF m * mult <= 0 THEN << <<>> >> ELSE SubMultisetsFrom(m, mult, 0)

\* the Python slice l[0:n]
Slice(l, n) == SubSeq(l, 1, Min(Len(l), IF n < 0 THEN 0 ELSE n))

(***************************************************************************)
(* Multivariate polynomials over GF(q) in m variables.                     *)
(***************************************************************************)
ZeroExp(m) == List([i \in 1..m |-> 0])

\* the constant a as an element of the ring in m variables
PolyConst(m, a) == IF a = 0 THEN {} ELSE {[e |-> ZeroExp(m), c |-> a]}

\* _R.gen(i)
PolyGen(m, i) ==
    {[e |-> List([j \in 1..m |-> IF j = i + 1 THEN 1 ELSE 0]), c |-> 1]}

Coeff(p, e) == IF \E t \in p : t.e = e THEN (CHOOSE t \in p : t.e = e).c ELSE 0

PolyAdd(q, p1, p2) ==
    LET E == {t.e : t \in p1 \cup p2}
    IN {[e |-> e, c |-> FAdd(q, Coeff(p1, e), Coeff(p2, e))] :
           e \in {e \in E : FAdd(q, Coeff(p1, e), Coeff(p2, e)) # 0}}

RECURSIVE SumProducts(_, _)
SumProducts(q, S) ==
    IF S = {} THEN 0
    ELSE LET pr == CHOOSE pr \in S : TRUE
         IN FAdd(q, FMul(q, pr[1].c, pr[2].c), SumProducts(q, S \ {pr}))

ExpPlus(e1, e2) == List([i \in 1..Len(e1) |-> e1[i] + e2[i]])

PolyMul(q, p1, p2) ==
    LET E == {ExpPlus(t1.e, t2.e) : t1 \in p1, t2 \in p2}
        co(e) == SumProducts(q, {pr \in p1 \X p2 : ExpPlus(pr[1].e, pr[2].e) = e})
    IN {[e |-> e, c |-> co(e)] : e \in {e \in E : co(e) # 0}}

Max(a, b) == IF a < b THEN b ELSE a

RECURSIVE MaxDeg(_)
MaxDeg(p) ==
    IF p = {} THEN -1
    ELSE LET t == CHOOSE t \in p : TRUE
         IN Max(SeqSum(t.e), MaxDeg(p \ {t}))

\* p.degree(): the total degree, -1 for the zero polynomial
degree(p) == MaxDeg(p)

\* the degree of p in variable x_i alone
RECURSIVE degreeIn(_, _)
degreeIn(p, i) ==
    IF p = {} THEN -1
    ELSE LET t == CHOOSE t \in p : TRUE
         IN Max(t.e[i + 1], degreeIn(p \ {t}, i))

RECURSIVE MonomialAt(_, _, _, _)
MonomialAt(q, e, x, i) ==
    IF i > Len(e) THEN 1
    ELSE FMul(q, FPow(q, x[i], e[i]), MonomialAt(q, e, x, i + 1))

\* p(x): the value of p at the point x
RECURSIVE PolyCall(_, _, _)
PolyCall(q, p, x) ==
    IF p = {} THEN 0
    ELSE LET t == CHOOSE t \in p : TRUE
         IN FAdd(q, FMul(q, t.c, MonomialAt(q, t.e, x, 1)),
                 PolyCall(q, p \ {t}, x))

(***************************************************************************)
(* Univariate polynomials as dense coefficient lists (entry k+1 is the     *)
(* coefficient of x^k) and Lagrange interpolation.                         *)
(***************************************************************************)
UniCoeff(a, k) == IF k >= 1 /\ k <= Len(a) THEN a[k] ELSE 0

\* the operands of a sum, a multiple and a product are bound to their
\* values by x \in {..} before the coefficients are computed from them
UniAdd(q, a, b) ==
    CHOOSE r \in {List([k \in 1..Max(Len(x), Len(y)) |->
                            FAdd(q, UniCoeff(x, k), UniCoeff(y, k))]) :
                     x \in {a}, y \in {b}} : TRUE

UniScale(q, s, a) ==
    CHOOSE r \in {List([k \in 1..Len(x) |-> FMul(q, t, x[k])]) : t \in {s}, x \in {a}} : TRUE

RECURSIVE Convolve(_, _, _, _, _)
Convolve(q, a, b, k, i) ==
    IF i > Len(a) THEN 0
    ELSE FAdd(q, FMul(q, a[i], UniCoeff(b, k - i + 1)), Convolve(q, a, b, k, i + 1))

UniMul(q, a, b) ==
    CHOOSE r \in {IF Len(x) = 0 \/ Len(y) = 0 THEN <<>>
                  ELSE List([k \in 1..(Len(x) + Len(y) - 1) |-> Convolve(q, x, y, k, 1)]) :
                     x \in {a}, y \in {b}} : TRUE

\* the product over j # i of (x - x_j) / (x_i - x_j)
RECURSIVE LagrangeBasis(_, _, _, _)
LagrangeBasis(q, points, i, j) ==
    IF j > Len(points) THEN <<1>>
    ELSE IF j = i THEN LagrangeBasis(q, points, i, j + 1)
    ELSE LET xi == points[i][1]
             xj == points[j][1]
             s  == FInv(q, FAdd(q, xi, FNeg(q, xj)))
         IN UniMul(q, UniScale(q, s, <<FNeg(q, xj), 1>>),
                   LagrangeBasis(q, points, i, j + 1))

RECURSIVE LagrangeSum(_, _, _)
LagrangeSum(q, points, i) ==
    IF i > Len(points) THEN <<>>
    ELSE UniAdd(q, UniScale(q, points[i][2], LagrangeBasis(q, points, i, 1)),
                LagrangeSum(q, points, i + 1))

\* a dense list without its trailing zeros: [] for the zero polynomial
RECURSIVE Trim(_)
Trim(a) ==
    IF Len(a) = 0 THEN a
    ELSE IF a[Len(a)] = 0 THEN Trim(SubSeq(a, 1, Len(a) - 1))
    ELSE a

\* uniPolyRing.lagrange_polynomial(points).coefficients(sparse=False)
lagrange_polynomial(q, points) ==
    CHOOSE r \in {Trim(p) : p \in {LagrangeSum(q, points, 1)}} : TRUE

(***************************************************************************)
(* multivariatePolynomialInterpolation.  The ring R is the record          *)
(* [base |-> size of its base field, ngens |-> number of variables]; the   *)
(* field finiteField is named by its size.  Lists are indexed from 1 here  *)
(* and from 0 in the source.                                               *)
(***************************************************************************)
\* the list extended with ones
PadZeros_ones(polyVector, d) ==
    IF Len(polyVector) < d
    THEN polyVector \o List([i \in 1..(d - Len(polyVector)) |-> 1])
    ELSE polyVector

\* polyVector+[0 for i in range(d-len(polyVector))] when len(polyVector)<d
PadZeros(polyVector, d) ==
    IF Len(polyVector) < d
    THEN polyVector \o List([i \in 1..(d - Len(polyVector)) |-> 0])
    ELSE polyVector

\* Evaluation2 reading the q values of inner position k from a contiguous block
Evaluation2_contiguous(evaluation, nq, d, q, finiteField) ==
    LET xcordinate == FieldList(finiteField)
    IN List([k \in 1..nq |->
          PadZeros(lagrange_polynomial(finiteField,
                      List([i \in 1..q |-> <<xcordinate[i], evaluation[(k - 1) * q + i]>>])),
                   d)])

\* Evaluation2 pairing the field's elements, taken from the last to the
\* first, with the blocks of the table, taken from the first to the last
Evaluation2_descending(evaluation, nq, d, q, finiteField) ==
    LET xcordinate == FieldList(finiteField)
    IN List([k \in 1..nq |->
          PadZeros(lagrange_polynomial(finiteField,
                      List([i \in 1..q |-> <<xcordinate[q + 1 - i],
                                             evaluation[k + (i - 1) * nq]>>])),
                   d)])

\* evaluation2: for each k in range(nq) the padded coefficient list of the
\* interpolant through (xcordinate[i], evaluation[k+i*nq]), i in range(q)
Evaluation2(evaluation, nq, d, q, finiteField) ==
    LET xcordinate == FieldList(finiteField)
    IN List([k \in 1..nq |->
          PadZeros(lagrange_polynomial(finiteField,
                      List([i \in 1..q |-> <<xcordinate[i], evaluation[k + (i - 1) * nq]>>])),
                   d)])

RECURSIVE multivariatePolynomialInterpolation(_, _, _, _, _, _)
RECURSIVE InterpolationLoop(_, _, _, _, _, _, _, _, _, _)

\* the loop without its last statement z=z*x
InterpolationLoop_z(k, d, poly, z, evaluation2, numberOfVariable, order, q, finiteField, R) ==
    IF k >= d THEN poly
    ELSE LET nq  == Len(evaluation2)
             sub == multivariatePolynomialInterpolation(
                        List([i \in 1..nq |-> evaluation2[i][k + 1]]),
                        numberOfVariable - 1, order - k, q, finiteField, R)
         IN InterpolationLoop(k + 1, d,
                PolyAdd(finiteField, poly, PolyMul(finiteField, z, sub)),
                z, evaluation2, numberOfVariable, order, q, finiteField, R)

\* the loop calling itself with order instead of order-k
InterpolationLoop_order(k, d, poly, z, evaluation2, numberOfVariable, order, q, finiteField, R) ==
    IF k >= d THEN poly
    ELSE LET nq  == Len(evaluation2)
             sub == multivariatePolynomialInterpolation(
                        List([i \in 1..nq |-> evaluation2[i][k + 1]]),
                        numberOfVariable - 1, order, q, finiteField, R)
             x   == PolyGen(R.ngens, numberOfVariable - 1)
         IN InterpolationLoop(k + 1, d,
                PolyAdd(finiteField, poly, PolyMul(finiteField, z, sub)),
                PolyMul(finiteField, z, x),
                evaluation2, numberOfVariable, order, q, finiteField, R)

\* the loop "for k in range(d)": poly and z are the loop's variables
InterpolationLoop(k, d, poly, z, evaluation2, numberOfVariable, order, q, finiteField, R) ==
    IF k >= d THEN poly
    ELSE LET nq  == Len(evaluation2)
             sub == multivariatePolynomialInterpolation(
                        List([i \in 1..nq |-> evaluation2[i][k + 1]]),
                        numberOfVariable - 1, order - k, q, finiteField, R)
             x   == PolyGen(R.ngens, numberOfVariable - 1)
         IN InterpolationLoop(k + 1, d,
                PolyAdd(finiteField, poly, PolyMul(finiteField, z, sub)),
                PolyMul(finiteField, z, x),
                evaluation2, numberOfVariable, order, q, finiteField, R)

\* multivariatePolynomialInterpolation returning the last entry of the
\* table in the base case
multivariatePolynomialInterpolation_last(evaluation, numberOfVariable, order, q, finiteField, R) ==
    IF numberOfVariable = 0 \/ order = 0
    THEN PolyConst(R.ngens, evaluation[Len(evaluation)])
    ELSE LET nq == IntPow(q, numberOfVariable - 1)
             d  == Min(order + 1, q)
             evaluation2 == Evaluation2(evaluation, nq, d, q, finiteField)
         IN InterpolationLoop(0, d, {}, PolyConst(R.ngens, 1), evaluation2,
                              numberOfVariable, order, q, finiteField, R)

\* multivariatePolynomialInterpolation with d = min(order, q)
multivariatePolynomialInterpolation_d(evaluation, numberOfVariable, order, q, finiteField, R) ==
    IF numberOfVariable = 0 \/ order = 0
    THEN PolyConst(R.ngens, evaluation[1])
    ELSE LET nq == IntPow(q, numberOfVariable - 1)
             d  == Min(order, q)
             evaluation2 == Evaluation2(evaluation, nq, d, q, finiteField)
         IN InterpolationLoop(0, d, {}, PolyConst(R.ngens, 1), evaluation2,
                              numberOfVariable, order, q, finiteField, R)

multivariatePolynomialInterpolation(evaluation, numberOfVariable, order, q, finiteField, R) ==
    IF numberOfVariable = 0 \/ order = 0
    THEN PolyConst(R.ngens, evaluation[1])
    ELSE LET nq == IntPow(q, numberOfVariable - 1)
             d  == Min(order + 1, q)
             evaluation2 == Evaluation2(evaluation, nq, d, q, finiteField)
         IN InterpolationLoop(0, d, {}, PolyConst(R.ngens, 1), evaluation2,
                              numberOfVariable, order, q, finiteField, R)

(***************************************************************************)
(* The code classes.  A constructor argument that must be an Integer is    *)
(* the record [integer |-> whether it is one, val |-> its value]; a base   *)
(* field argument is [finite |-> whether it is a FiniteField, card |-> its *)
(* cardinality].  A constructor returns [error, code]: the message of the  *)
(* ValueError it raises ("" if none) and the object it built.              *)
(***************************************************************************)
NoCode == [cls |-> "none", base_field |-> 0, length |-> 0, order |-> 0,
           numberOfVariable |-> 0, q |-> 0, dimension |-> 0]

\* the constructor with the dimension binomial(numberOfVariable+order-1, order)
QAryReedMullerCode_init_dimension(baseField, order, numberOfVariable) ==
    IF ~baseField.finite
    THEN [error |-> "the input baseField must be a finiteField", code |-> NoCode]
    ELSE IF ~order.integer
    THEN [error |-> "The order of the code must be an integer", code |-> NoCode]
    ELSE IF ~numberOfVariable.integer
    THEN [error |-> "The number of variables must be an integer", code |-> NoCode]
    ELSE LET q == baseField.card
         IN IF order.val >= q
            THEN [error |-> "The order must be less than q", code |-> NoCode]
            ELSE [error |-> "",
                  code  |-> [cls |-> "QAry",
                             base_field |-> q,
                             length |-> IntPow(q, numberOfVariable.val),
                             order |-> order.val,
                             numberOfVariable |-> numberOfVariable.val,
                             q |-> q,
                             dimension |-> binomial(numberOfVariable.val + order.val - 1,
                                                    order.val)]]

\* the constructor with the test order>q
QAryReedMullerCode_init_gt(baseField, order, numberOfVariable) ==
    IF ~baseField.finite
    THEN [error |-> "the input baseField must be a finiteField", code |-> NoCode]
    ELSE IF ~order.integer
    THEN [error |-> "The order of the code must be an integer", code |-> NoCode]
    ELSE IF ~numberOfVariable.integer
    THEN [error |-> "The number of variables must be an integer", code |-> NoCode]
    ELSE LET q == baseField.card
         IN IF order.val > q
            THEN [error |-> "The order must be less than q", code |-> NoCode]
            ELSE [error |-> "",
                  code  |-> [cls |-> "QAry",
                             base_field |-> q,
                             length |-> IntPow(q, numberOfVariable.val),
                             order |-> order.val,
                             numberOfVariable |-> numberOfVariable.val,
                             q |-> q,
                             dimension |-> binomial(numberOfVariable.val + order.val,
                                                    order.val)]]

QAryReedMullerCode_init(baseField, order, numberOfVariable) ==
    IF ~baseField.finite
    THEN [error |-> "the input baseField must be a finiteField", code |-> NoCode]
    ELSE IF ~order.integer
    THEN [error |-> "The order of the code must be an integer", code |-> NoCode]
    ELSE IF ~numberOfVariable.integer
    THEN [error |-> "The number of variables must be an integer", code |-> NoCode]
    ELSE LET q == baseField.card
         IN IF order.val >= q
            THEN [error |-> "The order must be less than q", code |-> NoCode]
            ELSE [error |-> "",
                  code  |-> [cls |-> "QAry",
                             base_field |-> q,
                             length |-> IntPow(q, numberOfVariable.val),
                             order |-> order.val,
                             numberOfVariable |-> numberOfVariable.val,
                             q |-> q,
                             dimension |-> binomial(numberOfVariable.val + order.val,
                                                    order.val)]]

BinaryReedMullerCode_init(order, numberOfVariable) ==
    IF ~order.integer
    THEN [error |-> "The order of the code must be an integer", code |-> NoCode]
    ELSE IF ~numberOfVariable.integer
    THEN [error |-> "The number of variables must be an integer", code |-> NoCode]
    ELSE IF numberOfVariable.val < order.val
    THEN [error |-> "The order must be less than or equal to numberOfVariable",
          code |-> NoCode]
    ELSE [error |-> "",
          code  |-> [cls |-> "Binary",
                     base_field |-> 2,
                     length |-> IntPow(2, numberOfVariable.val),
                     order |-> order.val,
                     numberOfVariable |-> numberOfVariable.val,
                     q |-> 2,
                     dimension |-> binomialSum(numberOfVariable.val, order.val)]]

\* the factory building the q-ary variant over every field
ReedMullerCode_qary(baseField, order, numberOfVariable) ==
    IF ~baseField.finite
    THEN [error |-> "The parameter baseField must be a finite", code |-> NoCode]
    ELSE QAryReedMullerCode_init(baseField, order, numberOfVariable)

\* the factory ReedMullerCode(baseField, order, numberOfVariable)
ReedMullerCode(baseField, order, numberOfVariable) ==
    IF ~baseField.finite
    THEN [error |-> "The parameter baseField must be a finite", code |-> NoCode]
    ELSE LET q == baseField.card
         IN IF q = 2
            THEN BinaryReedMullerCode_init(order, numberOfVariable)
            ELSE QAryReedMullerCode_init(baseField, order, numberOfVariable)

(***************************************************************************)
(* ReedMullerVectorEncoder.                                                *)
(***************************************************************************)
\* exponents cut one short: [0:code.dimension()-1]
Exponents_short(C) == Slice(Subsets(C.numberOfVariable, C.q - 1), C.dimension - 1)

\* the list "exponents" of __init__: the first dimension submultisets
Exponents(C) == Slice(Subsets(C.numberOfVariable, C.q - 1), C.dimension)

\* reduce(mul, [x[i] for i in exponent], 1)
RECURSIVE ReduceMul(_, _, _, _)

\* the product without the last index of exponent
ReduceMul_skip(q, x, exponent, k) ==
    IF k >= Len(exponent) THEN 1
    ELSE FMul(q, x[exponent[k] + 1], ReduceMul(q, x, exponent, k + 1))

ReduceMul(q, x, exponent, k) ==
    IF k > Len(exponent) THEN 1
    ELSE FMul(q, x[exponent[k] + 1], ReduceMul(q, x, exponent, k + 1))

\* the list x with its coordinates in the opposite order
Reversed(x) == List([j \in 1..Len(x) |-> x[Len(x) + 1 - j]])

\* the generator evaluated at the points with their coordinates reversed
ReedMullerVectorEncoder_init_reversed(C) ==
    LET baseFieldTuple == Tuples(FieldList(C.base_field), C.numberOfVariable)
        exponents == Exponents(C)
    IN List([j \in 1..Len(exponents) |->
          List([i \in 1..Len(baseFieldTuple) |->
                  ReduceMul(C.base_field, Reversed(baseFieldTuple[i]), exponents[j], 1)])])

\* the generator with the row of the first exponent in the place of every row
ReedMullerVectorEncoder_init_repeat(C) ==
    LET baseFieldTuple == Tuples(FieldList(C.base_field), C.numberOfVariable)
        exponents == Exponents(C)
    IN List([j \in 1..Len(exponents) |->
          List([i \in 1..Len(baseFieldTuple) |->
                  ReduceMul(C.base_field, baseFieldTuple[i], exponents[1], 1)])])

\* self.generator as built by __init__: one row per exponent, one column
\* per element of baseFieldTuple.list()
ReedMullerVectorEncoder_init(C) ==
    LET baseFieldTuple == Tuples(FieldList(C.base_field), C.numberOfVariable)
        exponents == Exponents(C)
    IN List([j \in 1..Len(exponents) |->
          List([i \in 1..Len(baseFieldTuple) |->
                  ReduceMul(C.base_field, baseFieldTuple[i], exponents[j], 1)])])

generator_matrix(E) == E.generator

nrows(G) == Len(G)

ncols(G) == IF Len(G) = 0 THEN 0 ELSE Len(G[1])

RECURSIVE DotColumn(_, _, _, _, _)

\* the sum started from 1
DotColumn_one(q, word, G, i, j) ==
    IF j > Len(word) THEN 1
    ELSE FAdd(q, FMul(q, word[j], G[j][i]), DotColumn(q, word, G, i, j + 1))

DotColumn(q, word, G, i, j) ==
    IF j > Len(word) THEN 0
    ELSE FAdd(q, FMul(q, word[j], G[j][i]), DotColumn(q, word, G, i, j + 1))

\* Encoder.encode of the base class: word * generator_matrix, for a word of
\* the message space base_field^nrows
Encoder_encode(C, E, word) ==
    LET G == generator_matrix(E)
    IN IF Len(word) # nrows(G)
       THEN [error |-> "The value to encode must be in the message space",
             value |-> <<>>]
       ELSE [error |-> "",
             value |-> List([i \in 1..ncols(G) |->
                               DotColumn(C.base_field, word, G, i, 1)])]

(***************************************************************************)
(* ReedMullerPolynomialEncoder.  The argument R of the constructor is      *)
(* [default |-> TRUE] for 'default' or a ring with default |-> FALSE.  A   *)
(* polynomial handed to encode is [parent |-> its ring, terms |-> its      *)
(* terms]; a parent with base 0 is a ring over the rationals.              *)
(***************************************************************************)
Ring(b, n) == [base |-> b, ngens |-> n]

NoRing == Ring(-1, -1)

\* the constructor accepting a ring that matches in one of the two respects
ReedMullerPolynomialEncoder_init_or(C, R) ==
    IF R.default
    THEN [error |-> "", R |-> Ring(C.base_field, C.numberOfVariable)]
    ELSE IF R.base = C.base_field \/ R.ngens = C.numberOfVariable
    THEN [error |-> "", R |-> Ring(R.base, R.ngens)]
    ELSE [error |-> "The Polynomial ring should be on base_field and should have numberOfVariable variables",
          R |-> NoRing]

ReedMullerPolynomialEncoder_init(C, R) ==
    IF R.default
    THEN [error |-> "", R |-> Ring(C.base_field, C.numberOfVariable)]
    ELSE IF R.base = C.base_field /\ R.ngens = C.numberOfVariable
    THEN [error |-> "", R |-> Ring(R.base, R.ngens)]
    ELSE [error |-> "The Polynomial ring should be on base_field and should have numberOfVariable variables",
          R |-> NoRing]

message_space(E) == E.R

\* p in M: p is a polynomial over the coefficient field of M in as many
\* variables as M has
In(p, M) == p.parent.base = M.base /\ p.parent.ngens = M.ngens

\* encode testing the degree before the membership in M
encode_degree_first(C, E, p) ==
    LET M == message_space(E)
    IN IF degree(p.terms) > C.order
       THEN [error |-> "The polynomial to encode must have degree at most order",
             value |-> <<>>]
       ELSE IF ~In(p, M)
       THEN [error |-> "The value to encode must be in M", value |-> <<>>]
       ELSE LET baseFieldTuple == Tuples(FieldList(C.base_field), C.numberOfVariable)
            IN [error |-> "",
                value |-> List([i \in 1..Len(baseFieldTuple) |->
                                  PolyCall(C.base_field, p.terms, baseFieldTuple[i])])]

\* encode evaluating p with the coordinates of each point reversed
encode_reversed(C, E, p) ==
    LET M == message_space(E)
    IN IF ~In(p, M)
       THEN [error |-> "The value to encode must be in M", value |-> <<>>]
       ELSE IF degree(p.terms) > C.order
       THEN [error |-> "The polynomial to encode must have degree at most order",
             value |-> <<>>]
       ELSE LET baseFieldTuple == Tuples(FieldList(C.base_field), C.numberOfVariable)
            IN [error |-> "",
                value |-> List([i \in 1..Len(baseFieldTuple) |->
                                  PolyCall(C.base_field, p.terms,
                                           Reversed(baseFieldTuple[i]))])]

\* encode testing the degree in each variable instead of the total degree
encode_degrees(C, E, p) ==
    LET M == message_space(E)
    IN IF ~In(p, M)
       THEN [error |-> "The value to encode must be in M", value |-> <<>>]
       ELSE IF \E i \in 1..M.ngens : degreeIn(p.terms, i - 1) > C.order
       THEN [error |-> "The polynomial to encode must have degree at most order",
             value |-> <<>>]
       ELSE LET baseFieldTuple == Tuples(FieldList(C.base_field), C.numberOfVariable)
            IN [error |-> "",
                value |-> List([i \in 1..Len(baseFieldTuple) |->
                                  PolyCall(C.base_field, p.terms, baseFieldTuple[i])])]

\* encode refusing the polynomials of degree order too
encode_ge(C, E, p) ==
    LET M == message_space(E)
    IN IF ~In(p, M)
       THEN [error |-> "The value to encode must be in M", value |-> <<>>]
       ELSE IF degree(p.terms) >= C.order
       THEN [error |-> "The polynomial to encode must have degree at most order",
             value |-> <<>>]
       ELSE LET baseFieldTuple == Tuples(FieldList(C.base_field), C.numberOfVariable)
            IN [error |-> "",
                value |-> List([i \in 1..Len(baseFieldTuple) |->
                                  PolyCall(C.base_field, p.terms, baseFieldTuple[i])])]

encode(C, E, p) ==
    LET M == message_space(E)
    IN IF ~In(p, M)
       THEN [error |-> "The value to encode must be in M", value |-> <<>>]
       ELSE IF degree(p.terms) > C.order
       THEN [error |-> "The polynomial to encode must have degree at most order",
             value |-> <<>>]
       ELSE LET baseFieldTuple == Tuples(FieldList(C.base_field), C.numberOfVariable)
            IN [error |-> "",
                value |-> List([i \in 1..Len(baseFieldTuple) |->
                                  PolyCall(C.base_field, p.terms, baseFieldTuple[i])])]

\* unencode_nocheck interpolating with order-1
unencode_nocheck_lower(C, E, c) ==
    multivariatePolynomialInterpolation(c, C.numberOfVariable, C.order - 1, C.q,
                                        C.base_field, E.R)

unencode_nocheck(C, E, c) ==
    multivariatePolynomialInterpolation(c, C.numberOfVariable, C.order, C.q,
                                        C.base_field, E.R)

(***************************************************************************)
(* The arguments the calls are made with.                                  *)
(***************************************************************************)
IntegerArg(v) == [integer |-> TRUE, val |-> v]

\* an argument such as 1.1
NonIntegerArg == [integer |-> FALSE, val |-> 1]

\* the finite fields of FieldSizes and the rationals
BaseFieldArgs ==
    {[finite |-> TRUE, card |-> q] : q \in FieldSizes}
        \cup {[finite |-> FALSE, card |-> 0]}

OrderArgs == {IntegerArg(v) : v \in (-1)..MaxOrder} \cup {NonIntegerArg}

VariableArgs == {IntegerArg(v) : v \in 0..MaxVars} \cup {NonIntegerArg}

RingArgs ==
    {[default |-> TRUE, base |-> 0, ngens |-> 0]}
        \cup {[default |-> FALSE, base |-> b, ngens |-> n] :
                 b \in FieldSizes, n \in 0..MaxVars}

\* the exponent tuples of m variables of total degree at most deg
Monomials(m, deg) ==
    {List(f) : f \in {g \in [1..m -> 0..deg] : SeqSum(List(g)) <= deg}}

\* the subsets of X with at most k elements
RECURSIVE Supports(_, _)
Supports(X, k) ==
    IF k <= 0 THEN {{}}
    ELSE LET smaller == Supports(X, k - 1)
         IN smaller \cup {S \cup {a} : S \in smaller, a \in X}

\* the polynomials with at most k terms, exponents in monos, coefficients in coeffs
PolysOver(coeffs, monos, k) ==
    UNION {{{[e |-> e, c |-> f[e]] : e \in S} : f \in [S -> coeffs]} :
              S \in Supports(monos, k)}

\* 1 + x0 + x1 + x1^2 + x0*x1 of the doctests of encode and unencode_nocheck
DoctestPolynomial ==
    {[e |-> <<0, 0>>, c |-> 1], [e |-> <<1, 0>>, c |-> 1], [e |-> <<0, 1>>, c |-> 1],
     [e |-> <<0, 2>>, c |-> 1], [e |-> <<1, 1>>, c |-> 1]}

\* the 10th power of the last variable, as x1^10 of the doctest of encode
DoctestHighDegree(m) ==
    IF m = 0 THEN {}
    ELSE {{[e |-> List([i \in 1..m |-> IF i = m THEN 10 ELSE 0]), c |-> 1]}}

\* y1^2 + 1 over the rationals, of the doctest of encode
DoctestForeign == {[e |-> <<2, 0>>, c |-> 1], [e |-> <<0, 0>>, c |-> 1]}

\* the polynomials encode is called with: those of the message space M
\* with at most MaxTerms terms of degree at most order+1, the doctests'
\* polynomials, and the monomials of degree at most order+1 of the other
\* rings: over another base field or the rationals (base 0), or in another
\* number of variables
PolynomialArgs(C, M) ==
    {[parent |-> M, terms |-> t] :
        t \in PolysOver(1..(M.base - 1), Monomials(M.ngens, C.order + 1), MaxTerms)
                \cup (IF M = Ring(3, 2) /\ C.order >= 1
                      THEN {DoctestPolynomial} ELSE {})
                \cup DoctestHighDegree(M.ngens)}
        \cup UNION {{[parent |-> R, terms |-> t] :
                        t \in PolysOver({1}, Monomials(R.ngens, C.order + 1), 1)} :
                    R \in {Ring(b, n) : b \in FieldSizes \cup {0}, n \in 0..MaxVars} \ {M}}
        \cup {[parent |-> Ring(0, 2), terms |-> DoctestForeign]}

\* the word with entry f[j] at each j of S and 0 elsewhere
WordOf(n, S, f) == List([j \in 1..n |-> IF j \in S THEN f[j] ELSE 0])

\* the words of length n over GF(q) with at most k non-zero entries
Words(q, n, k) ==
    UNION {{WordOf(n, S, f) : f \in [S -> 1..(q - 1)]} : S \in Supports(1..n, k)}

\* the words Encoder.encode is called with: those of length n with at most
\* MaxTerms non-zero entries, and the zero word of length n+1
WordArgs(q, n) == Words(q, n, MaxTerms) \cup {List([j \in 1..(n + 1) |-> 0])}

\* the table (1, 2, 0, 0, 2, 1, 1, 1, 0) of the doctest of unencode_nocheck,
\* which is no codeword
DoctestTable == <<1, 2, 0, 0, 2, 1, 1, 1, 0>>

\* the vector encode returns for the terms p: [p(x) for x in baseFieldTuple]
EvaluationTable(q, numberOfVariable, p) ==
    LET baseFieldTuple == Tuples(FieldList(q), numberOfVariable)
    IN List([i \in 1..Len(baseFieldTuple) |-> PolyCall(q, p, baseFieldTuple[i])])

\* polynomials of degree at most order with no exponent above q-1: 0, the
\* highest power of the last variable, that power with the first variable
\* in the place of one of its factors, and the polynomial of the docstrings
InterpolationPolynomials(q, numberOfVariable, order) ==
    LET m == numberOfVariable
        top == Min(order, q - 1)
    IN {{}}
         \cup (IF m >= 1 /\ top >= 1
               THEN {{[e |-> List([i \in 1..m |-> IF i = m THEN top ELSE 0]), c |-> 1]}}
               ELSE {})
         \cup (IF m >= 2 /\ top >= 1
               THEN {{[e |-> List([i \in 1..m |-> IF i = m THEN top - 1
                                                  ELSE IF i = 1 THEN 1 ELSE 0]),
                       c |-> q - 1]}}
               ELSE {})
         \cup (IF q = 3 /\ m = 2 /\ order >= 2 THEN {DoctestPolynomial} ELSE {})

\* the codewords a call is made with
InterpolationCodewords(q, numberOfVariable, order) ==
    {EvaluationTable(q, numberOfVariable, p) :
        p \in InterpolationPolynomials(q, numberOfVariable, order)}

\* the tables unencode_nocheck is called with: those of length q^m with at
\* most MaxTableWeight non-zero entries, the doctest's table, and the
\* codewords of InterpolationCodewords
TableArgs(C) ==
    Words(C.q, C.length, MaxTableWeight)
        \cup (IF C.q = 3 /\ C.length = 9 THEN {DoctestTable} ELSE {})
        \cup InterpolationCodewords(C.q, C.numberOfVariable, C.order)

\* the tables a call is made with: the zero table, the table whose entry i
\* is i mod q, the table whose only non-zero entry is a 1 in the last
\* place, and the table of the docstring of unencode_nocheck
InterpolationTables(q, numberOfVariable) ==
    LET n == IntPow(q, numberOfVariable)
    IN {List([i \in 1..n |-> 0]), List([i \in 1..n |-> (i - 1) % q]),
        List([i \in 1..n |-> IF i = n THEN 1 ELSE 0])}
          \cup (IF q = 3 /\ n = 9 THEN {DoctestTable} ELSE {})

(***************************************************************************)
(* The state: the arguments the code constructor was last called with,    *)
(* the code object, the two encoders built for it, and the call in         *)
(* progress: its name, the ValueError it raised ("" if none), its argument *)
(* (the ring, the polynomial, the word or the codeword) and its result.    *)
(* For a call of one of the module's two functions, stack holds the frames *)
(* of the calls in progress, the innermost last, and returned what the     *)
(* outermost call returned.  For calls of the encoders' methods made by    *)
(* several callers at once, calls.caller[t] is what caller t passed and    *)
(* got back and calls.frame holds the locals of the calls in progress.     *)
(***************************************************************************)
VARIABLES args, code, vectorEncoder, polynomialEncoder, op, error,
          message, word, codeword, decoded, ring, stack, returned, calls

vars == <<args, code, vectorEncoder, polynomialEncoder, op, error,
          message, word, codeword, decoded, ring, stack, returned, calls>>

\* the objects and the call of a method in progress
objects == <<args, code, vectorEncoder, polynomialEncoder, op, error,
             message, word, codeword, decoded, ring>>

NoArgs == [cls |-> "none", baseField |-> [finite |-> FALSE, card |-> 0],
           order |-> NonIntegerArg, numberOfVariable |-> NonIntegerArg]

NoMessage == [parent |-> NoRing, terms |-> {}]

NoVectorEncoder == [built |-> FALSE, generator |-> <<>>]

NoPolynomialEncoder == [built |-> FALSE, R |-> NoRing]

\* no function of the module has returned
NoReturn == [fn |-> "none"]

\* no ring has been handed to the constructor of the polynomial encoder
NoRingArg == [default |-> FALSE, base |-> -1, ngens |-> -1]

Calls == {"Encoder.encode", "encode", "unencode_nocheck"}

Callers == 1..MaxCallers

\* caller t has made no call
NoCall == [op |-> "none", pc |-> "idle", arg |-> <<>>, from |-> "none",
           error |-> "", value |-> <<>>]

NoFrame == [op |-> "none", pc |-> "none", arg |-> <<>>, error |-> "", value |-> <<>>]

NoCalls == [caller |-> [t \in Callers |-> NoCall], frame |-> [t \in Callers |-> NoFrame]]

\* no code has been built and no call made
Idle ==
    /\ args = NoArgs
    /\ code = NoCode
    /\ vectorEncoder = NoVectorEncoder
    /\ polynomialEncoder = NoPolynomialEncoder
    /\ op = "init"
    /\ error = ""
    /\ message = NoMessage
    /\ word = <<>>
    /\ codeword = <<>>
    /\ decoded = {}
    /\ ring = NoRingArg
    /\ calls = NoCalls

Init ==
    /\ Idle
    /\ stack = <<>>
    /\ returned = NoReturn

\* C = QAryReedMullerCode(baseField, order, numberOfVariable)
NewQAryReedMullerCode ==
    /\ code.cls = "none"
    /\ \E baseField \in BaseFieldArgs, order \in OrderArgs,
          numberOfVariable \in VariableArgs :
          LET r == QAryReedMullerCode_init(baseField, order, numberOfVariable)
          IN /\ args' = [cls |-> "QAry", baseField |-> baseField, order |-> order,
                         numberOfVariable |-> numberOfVariable]
             /\ code' = r.code
             /\ error' = r.error
    /\ op' = "QAryReedMullerCode"
    /\ UNCHANGED <<vectorEncoder, polynomialEncoder, message, word, codeword, decoded, ring,
                   stack, returned, calls>>

\* C = BinaryReedMullerCode(order, numberOfVariable)
NewBinaryReedMullerCode ==
    /\ code.cls = "none"
    /\ \E order \in OrderArgs, numberOfVariable \in VariableArgs :
          LET r == BinaryReedMullerCode_init(order, numberOfVariable)
          IN /\ args' = [cls |-> "Binary", baseField |-> [finite |-> TRUE, card |-> 2],
                         order |-> order, numberOfVariable |-> numberOfVariable]
             /\ code' = r.code
             /\ error' = r.error
    /\ op' = "BinaryReedMullerCode"
    /\ UNCHANGED <<vectorEncoder, polynomialEncoder, message, word, codeword, decoded, ring,
                   stack, returned, calls>>

\* C = ReedMullerCode(baseField, order, numberOfVariable)
NewReedMullerCode ==
    /\ code.cls = "none"
    /\ \E baseField \in BaseFieldArgs, order \in OrderArgs,
          numberOfVariable \in VariableArgs :
          LET r == ReedMullerCode(baseField, order, numberOfVariable)
          IN /\ args' = [cls |-> "ReedMullerCode", baseField |-> baseField,
                         order |-> order, numberOfVariable |-> numberOfVariable]
             /\ code' = r.code
             /\ error' = r.error
    /\ op' = "ReedMullerCode"
    /\ UNCHANGED <<vectorEncoder, polynomialEncoder, message, word, codeword, decoded, ring,
                   stack, returned, calls>>

\* E = ReedMullerVectorEncoder(C)
NewReedMullerVectorEncoder ==
    /\ code.cls # "none"
    /\ op \notin Calls
    /\ ~vectorEncoder.built
    /\ vectorEncoder' = [built |-> TRUE, generator |-> ReedMullerVectorEncoder_init(code)]
    /\ op' = "ReedMullerVectorEncoder"
    /\ error' = ""
    /\ ring' = NoRingArg
    /\ UNCHANGED <<args, code, polynomialEncoder, message, word, codeword, decoded,
                   stack, returned, calls>>

\* E = ReedMullerPolynomialEncoder(C) or ReedMullerPolynomialEncoder(C, R)
NewReedMullerPolynomialEncoder ==
    /\ code.cls # "none"
    /\ op \notin Calls
    /\ ~polynomialEncoder.built
    /\ \E R \in RingArgs :
          LET r == ReedMullerPolynomialEncoder_init(code, R)
          IN /\ polynomialEncoder' = [built |-> r.error = "", R |-> r.R]
             /\ error' = r.error
             /\ ring' = R
    /\ op' = "ReedMullerPolynomialEncoder"
    /\ UNCHANGED <<args, code, vectorEncoder, message, word, codeword, decoded,
                   stack, returned, calls>>

\* c = E.encode(w) for the vector encoder E
VectorEncode ==
    /\ vectorEncoder.built
    /\ op \notin Calls
    /\ \E w \in WordArgs(code.base_field, nrows(vectorEncoder.generator)) :
          LET r == Encoder_encode(code, vectorEncoder, w)
          IN /\ word' = w
             /\ codeword' = r.value
             /\ error' = r.error
    /\ op' = "Encoder.encode"
    /\ message' = NoMessage
    /\ decoded' = {}
    /\ ring' = NoRingArg
    /\ UNCHANGED <<args, code, vectorEncoder, polynomialEncoder,
                   stack, returned, calls>>

\* c = E.encode(p) for the polynomial encoder E
Encode ==
    /\ polynomialEncoder.built
    /\ op \notin Calls
    /\ \E p \in PolynomialArgs(code, message_space(polynomialEncoder)) :
          LET r == encode(code, polynomialEncoder, p)
          IN /\ message' = p
             /\ codeword' = r.value
             /\ error' = r.error
    /\ op' = "encode"
    /\ word' = <<>>
    /\ decoded' = {}
    /\ ring' = NoRingArg
    /\ UNCHANGED <<args, code, vectorEncoder, polynomialEncoder,
                   stack, returned, calls>>

\* E.unencode_nocheck(c) for the codeword c an encoder has just returned
UnencodeNocheck ==
    /\ polynomialEncoder.built
    /\ op \in {"Encoder.encode", "encode"}
    /\ error = ""
    /\ Len(codeword) = code.length
    /\ decoded' = unencode_nocheck(code, polynomialEncoder, codeword)
    /\ op' = "unencode_nocheck"
    /\ ring' = NoRingArg
    /\ UNCHANGED <<args, code, vectorEncoder, polynomialEncoder, error, message, word, codeword,
                   stack, returned, calls>>

\* E.unencode_nocheck(c) for a table c of length q^m, codeword or not
UnencodeNocheckTable ==
    /\ polynomialEncoder.built
    /\ op \notin Calls
    /\ \E c \in TableArgs(code) :
          /\ codeword' = c
          /\ decoded' = unencode_nocheck(code, polynomialEncoder, c)
    /\ op' = "unencode_nocheck"
    /\ error' = ""
    /\ message' = NoMessage
    /\ word' = <<>>
    /\ ring' = NoRingArg
    /\ UNCHANGED <<args, code, vectorEncoder, polynomialEncoder,
                   stack, returned, calls>>

\* the caller drops the argument and the result of the last call
Return ==
    /\ op \in Calls
    /\ op' = "return"
    /\ error' = ""
    /\ message' = NoMessage
    /\ word' = <<>>
    /\ codeword' = <<>>
    /\ decoded' = {}
    /\ ring' = NoRingArg
    /\ UNCHANGED <<args, code, vectorEncoder, polynomialEncoder,
                   stack, returned, calls>>

Next ==
    \/ NewQAryReedMullerCode
    \/ NewBinaryReedMullerCode
    \/ NewReedMullerCode
    \/ NewReedMullerVectorEncoder
    \/ NewReedMullerPolynomialEncoder
    \/ VectorEncode
    \/ Encode
    \/ UnencodeNocheck
    \/ UnencodeNocheckTable
    \/ Return

Spec == Init /\ [][Next]_vars

\* a code and its vector encoder alone
VectorNext ==
    \/ NewQAryReedMullerCode
    \/ NewBinaryReedMullerCode
    \/ NewReedMullerVectorEncoder
    \/ VectorEncode
    \/ Return

VectorSpec == Init /\ [][VectorNext]_vars

\* a code and its polynomial encoder alone
PolynomialNext ==
    \/ NewQAryReedMullerCode
    \/ NewBinaryReedMullerCode
    \/ NewReedMullerPolynomialEncoder
    \/ Encode
    \/ UnencodeNocheck
    \/ Return

PolynomialSpec == Init /\ [][PolynomialNext]_vars

\* a code built by the factory and its encoders
FactoryNext ==
    \/ NewReedMullerCode
    \/ NewReedMullerVectorEncoder
    \/ NewReedMullerPolynomialEncoder

FactorySpec == Init /\ [][FactoryNext]_vars

\* a code, its polynomial encoder and the decoding of tables
TableNext ==
    \/ NewQAryReedMullerCode
    \/ NewBinaryReedMullerCode
    \/ NewReedMullerPolynomialEncoder
    \/ UnencodeNocheckTable
    \/ Return

TableSpec == Init /\ [][TableNext]_vars

(***************************************************************************)
(* Calls of Encoder.encode, encode and unencode_nocheck made by several    *)
(* callers against one code and its two encoders, interleaved statement by *)
(* statement.  The locals of a call (p, M, C, baseFieldTuple, the result)  *)
(* are in its frame; the code and the encoders are only read.              *)
(***************************************************************************)
\* every call keeping its locals in one frame shared by all callers
Frame_shared(t) == 1

\* the frame holding the locals of the call made by caller t
Frame(t) == t

Raise(f, msg) == [f EXCEPT !.pc = "return", !.error = msg]

ReturnValue(f, value) == [f EXCEPT !.pc = "return", !.value = value]

\* the next statement of encode(p): M and the test p not in M, C and the
\* test of the degree, baseFieldTuple and the vector of the values
EncodeStep(f, C, E) ==
    CASE f.pc = "M" ->
            IF ~In(f.arg, message_space(E))
            THEN Raise(f, "The value to encode must be in M")
            ELSE [f EXCEPT !.pc = "C"]
      [] f.pc = "C" ->
            IF degree(f.arg.terms) > C.order
            THEN Raise(f, "The polynomial to encode must have degree at most order")
            ELSE [f EXCEPT !.pc = "baseFieldTuple"]
      [] f.pc = "baseFieldTuple" ->
            LET baseFieldTuple == Tuples(FieldList(C.base_field), C.numberOfVariable)
            IN ReturnValue(f, List([i \in 1..Len(baseFieldTuple) |->
                                      PolyCall(C.base_field, f.arg.terms, baseFieldTuple[i])]))

\* the first statement a call executes
FirstStatement(o) ==
    CASE o = "encode" -> "M"
      [] o = "Encoder.encode" -> "generator_matrix"
      [] o = "unencode_nocheck" -> "interpolate"

\* the next statement of the call with frame f
CallStep(f, C, VE, PE) ==
    CASE f.op = "encode" -> EncodeStep(f, C, PE)
      [] f.op = "Encoder.encode" ->
            LET r == Encoder_encode(C, VE, f.arg)
            IN [f EXCEPT !.pc = "return", !.error = r.error, !.value = r.value]
      [] f.op = "unencode_nocheck" ->
            ReturnValue(f, unencode_nocheck(C, PE, f.arg))

\* the word whose entries are all a
ConstantWord(n, a) == List([j \in 1..n |-> a])

\* the calls the callers make: encode of x0 (of 1 when there is no
\* variable) and of the rational polynomial of the docstring,
\* Encoder.encode of the word of ones, and unencode_nocheck of the table
\* whose entry i is i mod q
CallArgs(C, VE, PE) ==
    LET M == message_space(PE)
    IN {[op |-> "encode",
         arg |-> [parent |-> M,
                  terms |-> IF M.ngens >= 1 THEN PolyGen(M.ngens, 0)
                            ELSE PolyConst(M.ngens, 1)]],
        [op |-> "encode", arg |-> [parent |-> Ring(0, 2), terms |-> DoctestForeign]],
        [op |-> "Encoder.encode", arg |-> ConstantWord(nrows(generator_matrix(VE)), 1)],
        [op |-> "unencode_nocheck",
         arg |-> List([i \in 1..C.length |-> (i - 1) % C.q])]}

\* a code built by the factory, with its two encoders, and no call made
ConcurrentInit ==
    /\ \E baseField \in BaseFieldArgs, order \in OrderArgs,
          numberOfVariable \in VariableArgs :
          LET r == ReedMullerCode(baseField, order, numberOfVariable)
              R == [default |-> TRUE, base |-> 0, ngens |-> 0]
          IN /\ r.error = ""
             /\ args = [cls |-> "ReedMullerCode", baseField |-> baseField,
                        order |-> order, numberOfVariable |-> numberOfVariable]
             /\ code = r.code
             /\ vectorEncoder = [built |-> TRUE,
                                 generator |-> ReedMullerVectorEncoder_init(r.code)]
             /\ polynomialEncoder = [built |-> TRUE,
                                     R |-> ReedMullerPolynomialEncoder_init(r.code, R).R]
             /\ ring = R
    /\ op = "ReedMullerPolynomialEncoder"
    /\ error = ""
    /\ message = NoMessage
    /\ word = <<>>
    /\ codeword = <<>>
    /\ decoded = {}
    /\ stack = <<>>
    /\ returned = NoReturn
    /\ calls = NoCalls

\* caller t calls a method of one of the encoders
CallBegin(t) ==
    /\ vectorEncoder.built
    /\ polynomialEncoder.built
    /\ calls.caller[t].pc # "called"
    /\ \E c \in CallArgs(code, vectorEncoder, polynomialEncoder) :
          calls' = [caller |-> [calls.caller EXCEPT ![t] =
                                   [NoCall EXCEPT !.op = c.op, !.arg = c.arg,
                                                  !.pc = "called"]],
                    frame |-> [calls.frame EXCEPT ![Frame(t)] =
                                   [NoFrame EXCEPT !.op = c.op, !.arg = c.arg,
                                                   !.pc = FirstStatement(c.op)]]]
    /\ UNCHANGED <<objects, stack, returned>>

\* the call made by caller t executes its next statement; a return or a
\* raise hands the result to the caller and ends the frame
CallNext(t) ==
    /\ calls.caller[t].pc = "called"
    /\ calls.frame[Frame(t)].op # "none"
    /\ LET f == CallStep(calls.frame[Frame(t)], code, vectorEncoder, polynomialEncoder)
       IN IF f.pc = "return"
          THEN calls' = [caller |-> [calls.caller EXCEPT ![t] =
                                        [@ EXCEPT !.pc = "returned", !.from = f.op,
                                                  !.error = f.error, !.value = f.value]],
                         frame |-> [calls.frame EXCEPT ![Frame(t)] = NoFrame]]
          ELSE calls' = [calls EXCEPT !.frame[Frame(t)] = f]
    /\ UNCHANGED <<objects, stack, returned>>

\* E.generator_matrix() that also stores the matrix with its rows reversed
GeneratorMatrix_reversed ==
    /\ vectorEncoder.built
    /\ returned' = [fn |-> "generator_matrix", value |-> generator_matrix(vectorEncoder)]
    /\ vectorEncoder' = [vectorEncoder EXCEPT !.generator = Reversed(vectorEncoder.generator)]
    /\ UNCHANGED <<args, code, polynomialEncoder, op, error, message, word, codeword,
                   decoded, ring, stack, calls>>

\* G = E.generator_matrix() for the vector encoder E
GeneratorMatrix ==
    /\ vectorEncoder.built
    /\ returned' = [fn |-> "generator_matrix", value |-> generator_matrix(vectorEncoder)]
    /\ UNCHANGED <<objects, stack, calls>>

ConcurrentNext ==
    \/ \E t \in Callers : CallBegin(t)
    \/ \E t \in Callers : CallNext(t)

ConcurrentSpec == ConcurrentInit /\ [][ConcurrentNext]_vars

\* the conversion specifier of the format strings
Specifier == "%s"

\* format % values of Python for a format string cut at its specifiers and a
\* tuple of integers: a TypeError unless there are as many values as
\* specifiers, else the pieces with the i-th specifier replaced by str of the
\* i-th value
Format(format, values) ==
    LET at == {i \in 1..Len(format) : format[i] = Specifier}
        rank(i) == Cardinality({j \in at : j <= i})
    IN IF Cardinality(at) > Len(values)
       THEN [error |-> "not enough arguments for format string", value |-> <<>>]
       ELSE IF Cardinality(at) < Len(values)
       THEN [error |-> "not all arguments converted during string formatting",
             value |-> <<>>]
       ELSE [error |-> "",
             value |-> List([i \in 1..Len(format) |->
                               IF i \in at THEN ToString(values[rank(i)])
                               ELSE format[i]])]

\* QAryReedMullerCode._latex_
QAryReedMullerCode_latex(C) ==
    Format(<<Specifier, "\textnormal{-ary Reed Muller Code of order} ", Specifier,
             " \textnormal{and number of variables} ", Specifier>>,
           <<C.q, C.order, C.numberOfVariable>>)

\* BinaryReedMullerCode._latex_
BinaryReedMullerCode_latex(C) ==
    Format(<<"\textnormal{Binary Reed Muller Code of order} ", Specifier,
             " \textnormal{and number of variables} ", Specifier>>,
           <<C.q, C.order, C.numberOfVariable>>)

\* latex(C) of a constructed code
Latex ==
    /\ code.cls # "none"
    /\ LET r == IF code.cls = "Binary" THEN BinaryReedMullerCode_latex(code)
                 ELSE QAryReedMullerCode_latex(code)
       IN returned' = [fn |-> "_latex_", value |-> r.value, error |-> r.error]
    /\ UNCHANGED <<objects, stack, calls>>

\* the constructions of a code and the calls of its _latex_
LatexNext ==
    \/ NewQAryReedMullerCode
    \/ NewBinaryReedMullerCode
    \/ NewReedMullerCode
    \/ Latex

LatexSpec == Init /\ [][LatexNext]_vars

\* the life of a code and its encoders: the constructions, then calls of
\* generator_matrix and, one after the other, of the encoders' methods
LifecycleNext ==
    \/ NewQAryReedMullerCode
    \/ NewBinaryReedMullerCode
    \/ NewReedMullerCode
    \/ NewReedMullerVectorEncoder
    \/ NewReedMullerPolynomialEncoder
    \/ GeneratorMatrix
    \/ CallBegin(1)
    \/ CallNext(1)

LifecycleSpec == Init /\ [][LifecycleNext]_vars

(***************************************************************************)
(* A call of binomialSum(n, k), one iteration of its loop at a time.  The  *)
(* frame holds the arguments, the loop's variables i, nCi and s, and       *)
(* whether every division made so far left no remainder.                   *)
(***************************************************************************)
BinomialSumFrame(n, k) ==
    [fn |-> "binomialSum", n |-> n, k |-> k, i |-> 0, nCi |-> 1, s |-> 1,
     exact |-> TRUE]

\* binomialSum(n, k) is called
BinomialSumInit ==
    /\ Idle
    /\ returned = NoReturn
    /\ \E n \in 0..MaxN, k \in (-1)..MaxN : stack = <<BinomialSumFrame(n, k)>>

\* one iteration of "for i in range(k)"
BinomialSumIterate ==
    /\ stack # <<>>
    /\ LET f == stack[Len(stack)]
       IN /\ f.fn = "binomialSum"
          /\ f.i < f.k
          /\ LET nCi == binomialSumStep(f.n, f.i, f.nCi)
             IN stack' = <<[f EXCEPT !.nCi = nCi,
                                     !.s = nCi + f.s,
                                     !.i = f.i + 1,
                                     !.exact = f.exact /\
                                         binomialSumRemainder(f.n, f.i, f.nCi) = 0]>>
    /\ UNCHANGED <<objects, returned, calls>>

\* return s
BinomialSumReturn ==
    /\ stack # <<>>
    /\ LET f == stack[Len(stack)]
       IN /\ f.fn = "binomialSum"
          /\ f.i >= f.k
          /\ returned' = [fn |-> "binomialSum", n |-> f.n, k |-> f.k,
                          value |-> f.s, exact |-> f.exact]
    /\ stack' = <<>>
    /\ UNCHANGED <<objects, calls>>

BinomialSumNext ==
    \/ BinomialSumIterate
    \/ BinomialSumReturn

BinomialSumSpec == BinomialSumInit /\ [][BinomialSumNext]_vars

(***************************************************************************)
(* A call of multivariatePolynomialInterpolation, one frame of stack for   *)
(* each call in progress.  A frame holds the arguments of its call and the *)
(* locals d, evaluation2, poly, z and k; pc is "start" before the test of  *)
(* the base case and "loop" once evaluation2 has been built.               *)
(***************************************************************************)
InterpolationFrame(evaluation, numberOfVariable, order, q, finiteField, R) ==
    [fn |-> "multivariatePolynomialInterpolation", evaluation |-> evaluation,
     numberOfVariable |-> numberOfVariable, order |-> order, q |-> q,
     finiteField |-> finiteField, R |-> R,
     pc |-> "start", d |-> 0, evaluation2 |-> <<>>, poly |-> {}, z |-> {}, k |-> 0]

\* the recursive call made with the table of its caller
InterpolationCall_table(f) ==
    InterpolationFrame(f.evaluation,
                       f.numberOfVariable - 1, f.order - f.k, f.q, f.finiteField, f.R)

\* the recursive call made with the same number of variables
InterpolationCall_same(f) ==
    InterpolationFrame(List([i \in 1..Len(f.evaluation2) |-> f.evaluation2[i][f.k + 1]]),
                       f.numberOfVariable, f.order - f.k, f.q, f.finiteField, f.R)

\* the frame of the recursive call made by iteration k of the loop of f
InterpolationCall(f) ==
    InterpolationFrame(List([i \in 1..Len(f.evaluation2) |-> f.evaluation2[i][f.k + 1]]),
                       f.numberOfVariable - 1, f.order - f.k, f.q, f.finiteField, f.R)

\* d with order in the place of order+1
NumberOfCoefficients_order(order, q) == Min(order, q)

\* d=min(order+1,q): the number of coefficients of each interpolant that
\* are passed on
NumberOfCoefficients(order, q) == Min(order + 1, q)

\* the deepest stack the machine builds before a call is refused
MaxDepth == MaxVars + 2

\* multivariatePolynomialInterpolation(evaluation, numberOfVariable, order,
\* q, finiteField, _R) is called
InterpolationInit ==
    /\ Idle
    /\ returned = NoReturn
    /\ \E q \in FieldSizes, numberOfVariable \in 0..MaxVars, order \in 0..MaxOrder :
          \E evaluation \in InterpolationTables(q, numberOfVariable)
                               \cup InterpolationCodewords(q, numberOfVariable, order) :
              stack = <<InterpolationFrame(evaluation, numberOfVariable, order, q, q,
                                           Ring(q, numberOfVariable))>>

\* the innermost call returns value: to the caller of the function, or to
\* the statement poly=poly+z*...; z=z*x of the loop of the calling frame
InterpolationReturn(value) ==
    LET n == Len(stack)
    IN IF n = 1
       THEN /\ stack' = <<>>
            /\ returned' = [fn |-> "multivariatePolynomialInterpolation",
                            evaluation |-> stack[1].evaluation,
                            numberOfVariable |-> stack[1].numberOfVariable,
                            order |-> stack[1].order, q |-> stack[1].q,
                            R |-> stack[1].R, value |-> value]
       ELSE LET c == stack[n - 1]
                x == PolyGen(c.R.ngens, c.numberOfVariable - 1)
            IN /\ stack' = SubSeq(stack, 1, n - 2) \o
                     <<[c EXCEPT !.poly = PolyAdd(c.finiteField, c.poly,
                                                  PolyMul(c.finiteField, c.z, value)),
                                 !.z = PolyMul(c.finiteField, c.z, x),
                                 !.k = c.k + 1]>>
               /\ UNCHANGED returned

\* if numberOfVariable==0 or order==0: return evaluation[0]
InterpolationBase ==
    /\ stack # <<>>
    /\ LET f == stack[Len(stack)]
       IN /\ f.fn = "multivariatePolynomialInterpolation"
          /\ f.pc = "start"
          /\ f.numberOfVariable = 0 \/ f.order = 0
          /\ InterpolationReturn(PolyConst(f.R.ngens, f.evaluation[1]))
    /\ UNCHANGED <<objects, calls>>

\* nq, d and evaluation2 are computed; poly=0; z=1
InterpolationPrepare ==
    /\ stack # <<>>
    /\ LET n == Len(stack)
           f == stack[n]
       IN /\ f.fn = "multivariatePolynomialInterpolation"
          /\ f.pc = "start"
          /\ ~(f.numberOfVariable = 0 \/ f.order = 0)
          /\ LET nq == IntPow(f.q, f.numberOfVariable - 1)
                 d  == NumberOfCoefficients(f.order, f.q)
             IN stack' = SubSeq(stack, 1, n - 1) \o
                   <<[f EXCEPT !.pc = "loop", !.d = d,
                               !.evaluation2 = Evaluation2(f.evaluation, nq, d, f.q,
                                                           f.finiteField),
                               !.poly = {}, !.z = PolyConst(f.R.ngens, 1), !.k = 0]>>
    /\ UNCHANGED <<objects, returned, calls>>

\* iteration k of "for k in range(d)" calls the function
InterpolationRecurse ==
    /\ stack # <<>>
    /\ Len(stack) < MaxDepth
    /\ LET f == stack[Len(stack)]
       IN /\ f.fn = "multivariatePolynomialInterpolation"
          /\ f.pc = "loop"
          /\ f.k < f.d
          /\ stack' = Append(stack, InterpolationCall(f))
    /\ UNCHANGED <<objects, returned, calls>>

\* return poly
InterpolationLoopExit ==
    /\ stack # <<>>
    /\ LET f == stack[Len(stack)]
       IN /\ f.fn = "multivariatePolynomialInterpolation"
          /\ f.pc = "loop"
          /\ f.k >= f.d
          /\ InterpolationReturn(f.poly)
    /\ UNCHANGED <<objects, calls>>

InterpolationNext ==
    \/ InterpolationBase
    \/ InterpolationPrepare
    \/ InterpolationRecurse
    \/ InterpolationLoopExit

\* a call in progress goes on: nothing else runs
InterpolationSpec ==
    InterpolationInit /\ [][InterpolationNext]_vars /\ WF_vars(InterpolationNext)

(***************************************************************************)
(* Properties.                                                             *)
(***************************************************************************)
\* the last call of encode returned a codeword for the polynomial message
Encoded == message.parent # NoRing /\ error = "" /\ op \in {"encode", "unencode_nocheck"}

\* unencode_nocheck has returned for the codeword of the polynomial message
Unencoded == Encoded /\ op = "unencode_nocheck"

\* the degree of the polynomial in each variable is at most q-1
Reduced(q, terms) == \A t \in terms : \A i \in 1..Len(t.e) : t.e[i] <= q - 1

\* the i-th point of F^m when coordinate 0 varies fastest
PointCoordinate0Fastest(q, m, i) ==
    List([j \in 1..m |-> FieldList(q)[(((i - 1) \div IntPow(q, j - 1)) % q) + 1]])

\* the i-th point of F^m when coordinate 0 varies slowest (row-major)
PointCoordinate0Slowest(q, m, i) ==
    List([j \in 1..m |-> FieldList(q)[(((i - 1) \div IntPow(q, m - j)) % q) + 1]])

\* C1 as stated: for every code and every polynomial p of the message ring
\* of total degree <= r, unencode_nocheck(encode(p)) equals p
C1_RoundTripAnyPolynomial ==
    Unencoded => decoded = message.terms

\* C1, amended: for every code and every polynomial p of the message ring
\* of total degree <= r and of degree <= q-1 in each variable,
\* unencode_nocheck(encode(p)) equals p coefficient by coefficient; for any
\* other p of total degree <= r it is the polynomial of degree <= q-1 in
\* each variable that has the evaluation table of p
C1_RoundTrip ==
    /\ (Unencoded /\ Reduced(code.q, message.terms)) => decoded = message.terms
    /\ Unencoded =>
          LET T == Tuples(FieldList(code.base_field), code.numberOfVariable)
          IN /\ Reduced(code.q, decoded)
             /\ \A i \in 1..Len(T) :
                   PolyCall(code.base_field, decoded, T[i]) = codeword[i]

\* a round trip of a polynomial of two terms and of degree r = 2
C1_Witness ==
    /\ Unencoded
    /\ code.order = 2
    /\ code.numberOfVariable = 2
    /\ degree(message.terms) = 2
    /\ Cardinality(message.terms) = 2
    /\ Reduced(code.q, message.terms)
    /\ decoded = message.terms

\* the polynomials of total degree <= r and degree <= q-1 in each variable
\* with at most MaxTerms terms
ReducedPolynomials(C) ==
    PolysOver(1..(C.q - 1),
              {e \in Monomials(C.numberOfVariable, C.order) :
                  \A i \in 1..Len(e) : e[i] <= C.q - 1},
              MaxTerms)

\* C2: for every polynomial p of total degree <= r and degree <= q-1 in
\* each variable, unencode_nocheck(encode(p)) is p, and no other polynomial
\* with those degree bounds has the evaluation table of p
C2_UniqueDecoding ==
    /\ (Unencoded /\ Reduced(code.q, message.terms)) => decoded = message.terms
    /\ (Encoded /\ op = "encode" /\ Reduced(code.q, message.terms)) =>
          LET T == Tuples(FieldList(code.base_field), code.numberOfVariable)
          IN \A p2 \in ReducedPolynomials(code) :
                p2 # message.terms =>
                   \E i \in 1..Len(T) :
                      PolyCall(code.base_field, p2, T[i]) # codeword[i]

\* a polynomial of degree r in two variables has been encoded and decoded
C2_Witness ==
    /\ Unencoded
    /\ code.cls = "QAry"
    /\ code.q = 3
    /\ code.numberOfVariable = 2
    /\ degree(message.terms) = code.order
    /\ degreeIn(message.terms, 0) = 2
    /\ decoded = message.terms

\* C3 as stated: encode(p) has length q^m and its i-th entry is p at the
\* i-th point of F^m, coordinate 0 varying slowest and coordinate m-1 fastest
C3_Coordinate0Slowest ==
    (Encoded /\ op = "encode") =>
        /\ Len(codeword) = IntPow(code.q, code.numberOfVariable)
        /\ \A i \in 1..Len(codeword) :
              codeword[i] = PolyCall(code.base_field, message.terms,
                               PointCoordinate0Slowest(code.q, code.numberOfVariable, i))

\* C3, amended: encode(p) has length q^m and its i-th entry is p at the
\* i-th point of F^m, coordinate 0 varying fastest and coordinate m-1
\* slowest, each coordinate running through the field's element order
C3_Coordinate0Fastest ==
    (Encoded /\ op = "encode") =>
        /\ Len(codeword) = IntPow(code.q, code.numberOfVariable)
        /\ \A i \in 1..Len(codeword) :
              codeword[i] = PolyCall(code.base_field, message.terms,
                               PointCoordinate0Fastest(code.q, code.numberOfVariable, i))

\* x0 + 2*x1 over GF(3) has been encoded: its table tells the two orders apart
C3_Witness ==
    /\ Encoded
    /\ op = "encode"
    /\ code.q = 3
    /\ message.terms = {[e |-> <<1, 0>>, c |-> 1], [e |-> <<0, 1>>, c |-> 2]}
    /\ codeword = <<0, 1, 2, 2, 0, 1, 1, 2, 0>>

\* the code of field size 3, order 2 and 2 variables
DoctestCode == code.q = 3 /\ code.order = 2 /\ code.numberOfVariable = 2

\* C4: for field size 3, m = 2, r = 2, encoding 1 + x0 + x1 + x1^2 + x0*x1
\* gives (1, 2, 0, 0, 2, 1, 1, 1, 1), and unencode_nocheck of that codeword
\* gives the polynomial back
C4_Doctest ==
    (DoctestCode /\ message.terms = DoctestPolynomial /\ op \in {"encode", "unencode_nocheck"}) =>
        /\ error = ""
        /\ codeword = <<1, 2, 0, 0, 2, 1, 1, 1, 1>>
        /\ op = "unencode_nocheck" => decoded = DoctestPolynomial

\* the doctest's codeword has been decoded
C4_Witness ==
    /\ DoctestCode
    /\ op = "unencode_nocheck"
    /\ message.terms = DoctestPolynomial
    /\ codeword = <<1, 2, 0, 0, 2, 1, 1, 1, 1>>
    /\ decoded = DoctestPolynomial

\* the exponent vector of a submultiset given as a list of variable indices
ExpVector(l, m) ==
    List([k \in 1..m |-> Cardinality({i \in 1..Len(l) : l[i] = k - 1})])

\* the exponent vectors e of [0, min(r, q-1)]^m with sum(e) <= r
BoundedExponents(q, r, m) ==
    {List(e) : e \in {f \in [1..m -> 0..Min(r, q - 1)] : SeqSum(List(f)) <= r}}

\* C5: for every valid (q, r, m) the dimension stored at construction,
\* C(m+r, r) for the q-ary and sum_{i<=r} C(m, i) for the binary variant,
\* is the number of exponent vectors e in [0, min(r,q-1)]^m with sum(e) <= r
C5_Dimension ==
    (code.cls # "none" /\ code.order >= 0) =>
        code.dimension =
            Cardinality(BoundedExponents(code.q, code.order, code.numberOfVariable))

\* a q-ary code of the maximal order r = q-1 in two variables
C5_Witness ==
    /\ code.cls = "QAry"
    /\ code.q = 3
    /\ code.order = code.q - 1
    /\ code.numberOfVariable = 2
    /\ code.dimension = 6

\* the vector encoder's constructor has just returned for a valid code
VectorEncoderBuilt ==
    op = "ReedMullerVectorEncoder" /\ vectorEncoder.built /\ code.order >= 0

\* C6: the monomial basis of the vector encoder, the first dimension
\* submultisets, consists of pairwise distinct exponent vectors with every
\* component in [0, min(r,q-1)] and total degree <= r, and contains every
\* such vector: the cut at dimension falls at the end of size class r
C6_MonomialBasis ==
    VectorEncoderBuilt =>
        LET m  == code.numberOfVariable
            all == Subsets(m, code.q - 1)
            ex == Exponents(code)
            vecs == List([j \in 1..Len(ex) |-> ExpVector(ex[j], m)])
            bounded == BoundedExponents(code.q, code.order, m)
        IN /\ Len(ex) = code.dimension
           /\ \A i, j \in 1..Len(ex) : i # j => vecs[i] # vecs[j]
           /\ \A j \in 1..Len(ex) : vecs[j] \in bounded
           /\ \A e \in bounded : \E j \in 1..Len(ex) : vecs[j] = e
           /\ \A j \in 1..Len(all) : (j <= code.dimension) <=> (Len(all[j]) <= code.order)

\* the basis of the code over GF(3) of order 1 in 2 variables, cut before
\* the submultisets of size 2
C6_Witness ==
    /\ VectorEncoderBuilt
    /\ code.cls = "QAry"
    /\ code.q = 3
    /\ code.order = 1
    /\ code.numberOfVariable = 2
    /\ Exponents(code) = << <<>>, <<0>>, <<1>> >>

\* the generator matrix of the doctest of generator_matrix
DoctestMatrix ==
    << <<1, 1, 1, 1, 1, 1, 1, 1, 1>>,
       <<0, 1, 2, 0, 1, 2, 0, 1, 2>>,
       <<0, 0, 0, 1, 1, 1, 2, 2, 2>>,
       <<0, 1, 1, 0, 1, 1, 0, 1, 1>>,
       <<0, 0, 0, 0, 1, 2, 0, 2, 1>>,
       <<0, 0, 0, 1, 1, 1, 1, 1, 1>> >>

\* C7: the generator matrix has dimension rows and q^m columns, entry
\* (j, i) is the product over the variables k of point_i[k]^(e_j[k]) for the
\* j-th basis monomial and the i-th point of the domain, and for q = 3,
\* m = 2, r = 2 the rows are the evaluations of 1, x0, x1, x0^2, x0*x1, x1^2
C7_GeneratorMatrix ==
    VectorEncoderBuilt =>
        LET m  == code.numberOfVariable
            G  == generator_matrix(vectorEncoder)
            ex == Exponents(code)
        IN /\ nrows(G) = code.dimension
           /\ \A j \in 1..nrows(G) :
                 /\ Len(G[j]) = IntPow(code.q, m)
                 /\ \A i \in 1..Len(G[j]) :
                       G[j][i] = MonomialAt(code.q, ExpVector(ex[j], m),
                                            PointCoordinate0Fastest(code.q, m, i), 1)
           /\ DoctestCode =>
                 /\ G = DoctestMatrix
                 /\ List([j \in 1..Len(ex) |-> ExpVector(ex[j], m)]) =
                       << <<0, 0>>, <<1, 0>>, <<0, 1>>, <<2, 0>>, <<1, 1>>, <<0, 2>> >>

\* the generator matrix of the doctest's code has been built
C7_Witness ==
    /\ VectorEncoderBuilt
    /\ DoctestCode
    /\ vectorEncoder.generator = DoctestMatrix

\* the polynomial sum_j w[j] * monomial_j over the vector encoder's basis
PolynomialOfWord(C, w) ==
    LET ex == Exponents(C)
    IN {[e |-> ExpVector(ex[j], C.numberOfVariable), c |-> w[j]] :
           j \in {i \in 1..Len(w) : w[i] # 0}}

\* the vector encoder has returned a codeword for the word of a valid code
VectorEncoded == op = "Encoder.encode" /\ error = "" /\ code.order >= 0

\* C8: for every coefficient vector c of length dimension and the
\* polynomial p = sum_j c[j] * monomial_j over the vector encoder's basis,
\* c * generator_matrix equals the polynomial encoder's encode(p)
C8_EncodersAgree ==
    VectorEncoded =>
        LET M == Ring(code.base_field, code.numberOfVariable)
            r == encode(code, [built |-> TRUE, R |-> M],
                        [parent |-> M, terms |-> PolynomialOfWord(code, word)])
        IN /\ r.error = ""
           /\ r.value = codeword

\* a word with two non-zero coefficients has been encoded over GF(3)
C8_Witness ==
    /\ VectorEncoded
    /\ code.q = 3
    /\ code.numberOfVariable = 2
    /\ Cardinality({j \in 1..Len(word) : word[j] # 0}) = 2
    /\ \E i \in 1..Len(codeword) : codeword[i] # codeword[1]

\* a + lambda*b and lambda*b entry by entry
VecAdd(q, a, b) == List([i \in 1..Len(a) |-> FAdd(q, a[i], b[i])])

VecScale(q, lambda, b) == List([i \in 1..Len(b) |-> FMul(q, lambda, b[i])])

\* C9: for all coefficient vectors a, b of length dimension and every
\* scalar lambda, encode(a + lambda*b) = encode(a) + lambda*encode(b),
\* where encode(c) = c * generator_matrix; a is the word encoded, with at
\* most MaxTerms non-zero entries, and b runs through the multiples of the
\* unit vectors
C9_Linearity ==
    VectorEncoded =>
        LET q == code.base_field
        IN \A b \in Words(q, Len(word), 1) :
              \A lambda \in 0..(q - 1) :
                 Encoder_encode(code, vectorEncoder,
                                VecAdd(q, word, VecScale(q, lambda, b))).value
                    = VecAdd(q, codeword,
                             VecScale(q, lambda,
                                      Encoder_encode(code, vectorEncoder, b).value))

\* a word of two non-zero coefficients has been encoded over GF(3)
C9_Witness ==
    /\ VectorEncoded
    /\ code.q = 3
    /\ code.dimension = 6
    /\ Cardinality({j \in 1..Len(word) : word[j] # 0}) = 2
    /\ Len(codeword) = 9

\* the constructor of a class was called with a finite field and integers
IntegerArgs ==
    /\ args.cls \in {"QAry", "Binary"}
    /\ args.baseField.finite
    /\ args.order.integer
    /\ args.numberOfVariable.integer

\* C10: constructing the q-ary variant with order >= field size fails, and
\* constructing the binary variant with order > variable count fails, and
\* no code object is produced; integer parameters with order < q (q-ary)
\* or order <= m (binary) construct a code of length q^m
C10_Construction ==
    IntegerArgs =>
        LET q == args.baseField.card
            r == args.order.val
            m == args.numberOfVariable.val
            valid == IF args.cls = "QAry" THEN r < q ELSE r <= m
        IN IF valid
           THEN /\ code.cls = args.cls
                /\ code.q = q
                /\ code.order = r
                /\ code.numberOfVariable = m
                /\ code.length = IntPow(q, m)
           ELSE /\ code = NoCode
                /\ error # ""

\* the q-ary constructor has failed for order = q
C10_Witness ==
    /\ IntegerArgs
    /\ args.cls = "QAry"
    /\ args.order.val = args.baseField.card
    /\ code = NoCode
    /\ error = "The order must be less than q"

(***************************************************************************)
(* Validation of the parameters.                                           *)
(***************************************************************************)
\* C11: construction of either variant fails whenever the order or the
\* variable count is a negative integer, so every constructed code has
\* 0 <= r < q (q-ary) or 0 <= r <= m with q = 2 (binary)
C11_NonNegativeParameters ==
    /\ (IntegerArgs /\ (args.order.val < 0 \/ args.numberOfVariable.val < 0)) =>
           (code = NoCode /\ error # "")
    /\ code.cls = "QAry" => (0 <= code.order /\ code.order < code.q)
    /\ code.cls = "Binary" =>
           (0 <= code.order /\ code.order <= code.numberOfVariable /\ code.q = 2)

\* encode has returned or raised for a polynomial of the message ring
EncodeCalled == op = "encode" /\ message.parent = message_space(polynomialEncoder)

\* C12: encode fails with the degree error for every polynomial of the
\* message ring of total degree > r, such as degree 10 against order 2, and
\* returns a codeword for every one of total degree <= r, degree r included
C12_DegreeCheck ==
    EncodeCalled =>
        IF degree(message.terms) > code.order
        THEN /\ error = "The polynomial to encode must have degree at most order"
             /\ codeword = <<>>
        ELSE /\ error = ""
             /\ Len(codeword) = code.length

\* x1^10 has been refused by the encoder of the code over GF(3) of order 2
C12_Witness ==
    /\ EncodeCalled
    /\ DoctestCode
    /\ message.terms = {[e |-> <<0, 10>>, c |-> 1]}
    /\ error = "The polynomial to encode must have degree at most order"

EncodeCalledForeign ==
    /\ op = "encode"
    /\ ~In(message, message_space(polynomialEncoder))

\* C14: encode fails with the error of the message ring when p is not in
\* it (another coefficient field or another number of variables), before
\* the degree is tested and before any evaluation: also a p of too high
\* a degree is reported as not in the ring, and no codeword is produced
C14_DomainMismatch ==
    EncodeCalledForeign =>
        /\ error = "The value to encode must be in M"
        /\ codeword = <<>>

\* a polynomial in another number of variables and of degree > r was refused
C14_Witness ==
    /\ EncodeCalledForeign
    /\ message.parent.base = code.base_field
    /\ message.parent.ngens # code.numberOfVariable
    /\ degree(message.terms) > code.order
    /\ code.order >= 0
    /\ error = "The value to encode must be in M"
    /\ codeword = <<>>

\* the constructor of the polynomial encoder has just returned or raised
PolynomialEncoderCalled == op = "ReedMullerPolynomialEncoder"

\* C15: constructing a polynomial encoder with an explicit ring fails with
\* the error of the ring if and only if the ring's base field differs from
\* the code's field or its number of variables differs from m; with no
\* ring given the message space is the ring over the code's field in
\* exactly m variables
C15_RingMismatch ==
    PolynomialEncoderCalled =>
        IF ring.default
        THEN /\ error = ""
             /\ polynomialEncoder.built
             /\ message_space(polynomialEncoder) =
                    Ring(code.base_field, code.numberOfVariable)
        ELSE LET mismatch == \/ ring.base # code.base_field
                             \/ ring.ngens # code.numberOfVariable
             IN /\ mismatch <=>
                      error = "The Polynomial ring should be on base_field and should have numberOfVariable variables"
                /\ mismatch => ~polynomialEncoder.built
                /\ ~mismatch =>
                      /\ error = ""
                      /\ polynomialEncoder.built
                      /\ message_space(polynomialEncoder) = Ring(ring.base, ring.ngens)

\* a ring over the code's field in another number of variables was refused
C15_Witness ==
    /\ PolynomialEncoderCalled
    /\ ~ring.default
    /\ ring.base = code.base_field
    /\ ring.ngens # code.numberOfVariable
    /\ ~polynomialEncoder.built
    /\ error # ""

\* unencode_nocheck has returned for a table that no encoder produced
TableDecoded == op = "unencode_nocheck" /\ message = NoMessage /\ word = <<>>

\* the terms are those of a polynomial of the ring M
PolynomialOf(M, terms) ==
    \A t \in terms :
        /\ t.c \in 1..(M.base - 1)
        /\ Len(t.e) = M.ngens
        /\ \A i \in 1..Len(t.e) : t.e[i] >= 0

\* x1^2 + x0 + x1 + 1
DoctestDecoded ==
    {[e |-> <<0, 2>>, c |-> 1], [e |-> <<1, 0>>, c |-> 1],
     [e |-> <<0, 1>>, c |-> 1], [e |-> <<0, 0>>, c |-> 1]}

\* C16: unencode_nocheck has no error path: for every table of length q^m,
\* codeword or not, it returns a polynomial of the message ring (of degree
\* <= r when r >= 0) and raises nothing; for a table that is no codeword
\* the polynomial returned need not have that table: for q = 3, m = 2,
\* r = 2 the table (1,2,0,0,2,1,1,1,0) gives x1^2 + x0 + x1 + 1, whose
\* codeword is another one
C16_NoErrorPath ==
    TableDecoded =>
        LET M == message_space(polynomialEncoder)
        IN /\ error = ""
           /\ Len(codeword) = IntPow(code.q, code.numberOfVariable)
           /\ PolynomialOf(M, decoded)
           /\ code.order >= 0 => degree(decoded) <= code.order
           /\ (DoctestCode /\ codeword = DoctestTable) =>
                 /\ decoded = DoctestDecoded
                 /\ encode(code, polynomialEncoder,
                           [parent |-> M, terms |-> decoded]).value # codeword

\* the doctest's table has been decoded
C16_Witness ==
    /\ TableDecoded
    /\ DoctestCode
    /\ codeword = DoctestTable
    /\ decoded = DoctestDecoded

\* the row of q^m ones
OnesRow(C) == List([i \in 1..IntPow(C.q, C.numberOfVariable) |-> 1])

\* C17: for r = 0 and every q and m the code has dimension 1, the
\* generator matrix is the single row of ones, every codeword is constant
\* over the q^m positions, and decoding a table returns the constant table[0]
C17_OrderZero ==
    (code.cls # "none" /\ code.order = 0) =>
        /\ code.dimension = 1
        /\ vectorEncoder.built =>
              generator_matrix(vectorEncoder) = <<OnesRow(code)>>
        /\ VectorEncoded =>
              /\ Len(codeword) = IntPow(code.q, code.numberOfVariable)
              /\ \A i \in 1..Len(codeword) : codeword[i] = word[1]
        /\ \A c \in TableArgs(code) :
              unencode_nocheck(code,
                  [built |-> TRUE, R |-> Ring(code.base_field, code.numberOfVariable)],
                  c) = PolyConst(code.numberOfVariable, c[1])

\* the word (2) has been encoded by the code over GF(3) of order 0 in two
\* variables
C17_Witness ==
    /\ VectorEncoded
    /\ code.order = 0
    /\ code.q = 3
    /\ code.numberOfVariable = 2
    /\ word = <<2>>
    /\ codeword = <<2, 2, 2, 2, 2, 2, 2, 2, 2>>

\* sum_{i=0..k} C(n, i): the number of subsets of 1..n of at most k elements
SubsetsUpTo(n, k) == Cardinality({S \in SUBSET (1..n) : Cardinality(S) <= k})

\* C18: binomialSum(n, k) is sum_{i=0..k} C(n, i) for all 0 <= k <= n, as
\* binomialSum(5, 3) = 26, and every division ((n-i)*nCi)/(i+1) of the loop
\* is exact, so that integer and rational division give the same result
C18_BinomialSum ==
    /\ \A j \in 1..Len(stack) :
          stack[j].fn = "binomialSum" =>
              /\ stack[j].exact
              /\ stack[j].s = SubsetsUpTo(stack[j].n, stack[j].i)
    /\ returned.fn = "binomialSum" =>
          /\ returned.exact
          /\ (0 <= returned.k /\ returned.k <= returned.n) =>
                returned.value = SubsetsUpTo(returned.n, returned.k)
          /\ (returned.n = 5 /\ returned.k = 3) => returned.value = 26

\* binomialSum(5, 3) has returned 26
C18_Witness ==
    /\ returned.fn = "binomialSum"
    /\ returned.n = 5
    /\ returned.k = 3
    /\ returned.value = 26
    /\ returned.exact

\* the factory has returned or raised
FactoryCalled == args.cls = "ReedMullerCode"

\* C19: ReedMullerCode(F, r, m) returns the binary variant exactly when F
\* has 2 elements and the q-ary variant over F otherwise, with that
\* variant's validation (r <= m for |F| = 2, r < q otherwise), and fails
\* when F is not a finite field
C19_Factory ==
    FactoryCalled =>
        LET q == args.baseField.card
            r == args.order.val
            m == args.numberOfVariable.val
        IN IF ~args.baseField.finite
           THEN /\ code = NoCode
                /\ error = "The parameter baseField must be a finite"
           ELSE IF ~(args.order.integer /\ args.numberOfVariable.integer)
           THEN code = NoCode /\ error # ""
           ELSE IF q = 2
           THEN IF r <= m
                THEN /\ code.cls = "Binary"
                     /\ code.q = 2
                     /\ code.order = r
                     /\ code.numberOfVariable = m
                ELSE /\ code = NoCode
                     /\ error = "The order must be less than or equal to numberOfVariable"
           ELSE IF r < q
                THEN /\ code.cls = "QAry"
                     /\ code.q = q
                     /\ code.base_field = q
                     /\ code.order = r
                     /\ code.numberOfVariable = m
                ELSE /\ code = NoCode
                     /\ error = "The order must be less than q"

\* ReedMullerCode(GF(2), 2, 2) has returned a binary code
C19_Witness ==
    /\ FactoryCalled
    /\ op = "ReedMullerCode"
    /\ args.baseField.card = 2
    /\ code.cls = "Binary"
    /\ code.order = 2
    /\ code.numberOfVariable = 2

\* the frames of the calls of multivariatePolynomialInterpolation in progress
InterpolationFrames ==
    {j \in 1..Len(stack) : stack[j].fn = "multivariatePolynomialInterpolation"}

\* multivariatePolynomialInterpolation has returned to its caller
InterpolationReturned == returned.fn = "multivariatePolynomialInterpolation"

\* each call in progress was made with one variable less than its caller
\* and with a non-negative order, and the calls nested in the outermost one
\* are at most its numberOfVariable
InterpolationDepth ==
    /\ \A j \in InterpolationFrames :
          /\ stack[j].numberOfVariable >= 0
          /\ j > 1 => stack[j].numberOfVariable = stack[j - 1].numberOfVariable - 1
    /\ InterpolationFrames # {} => Len(stack) - 1 <= stack[1].numberOfVariable

\* the machine returns what the function is defined to return
InterpolationResult ==
    InterpolationReturned =>
        returned.value = multivariatePolynomialInterpolation(
                             returned.evaluation, returned.numberOfVariable,
                             returned.order, returned.q, returned.q, returned.R)

\* C20: multivariatePolynomialInterpolation terminates on every table with
\* numberOfVariable >= 0 and order >= 0: each recursive call is made with
\* numberOfVariable decreased by exactly 1, the depth of the recursion
\* never exceeds numberOfVariable, and the outermost call returns
C20_Termination ==
    /\ [](InterpolationDepth)
    /\ <>(stack = <<>> /\ InterpolationReturned)

\* a call with two variables and a positive order, which recursed twice,
\* has returned
C20_Witness ==
    /\ InterpolationReturned
    /\ returned.numberOfVariable = 2
    /\ returned.order >= 1
    /\ stack = <<>>

\* what the call c returns when it is the only call made
Alone(c) ==
    CASE c.op = "encode" -> encode(code, polynomialEncoder, c.arg)
      [] c.op = "Encoder.encode" -> Encoder_encode(code, vectorEncoder, c.arg)
      [] c.op = "unencode_nocheck" ->
            [error |-> "", value |-> unencode_nocheck(code, polynomialEncoder, c.arg)]

\* C21: calls of encode, Encoder.encode and unencode_nocheck against one
\* code and one generator matrix, interleaved in any order, each return or
\* raise what they return or raise when run alone, and while they run the
\* code and the encoders are the ones the calls started with
C21_Interleaving ==
    \A t \in Callers :
        LET c == calls.caller[t]
        IN /\ c.pc = "returned" =>
                /\ c.from = c.op
                /\ c.error = Alone(c).error
                /\ c.error = "" => c.value = Alone(c).value
           /\ c.pc # "idle" => vectorEncoder.built /\ polynomialEncoder.built

\* an encode and an unencode_nocheck that ran at the same time have both
\* returned, with different results
C21_Witness ==
    \E t, u \in Callers :
        /\ calls.caller[t].pc = "returned"
        /\ calls.caller[t].op = "encode"
        /\ calls.caller[t].error = ""
        /\ calls.caller[u].pc = "returned"
        /\ calls.caller[u].op = "unencode_nocheck"
        /\ calls.caller[u].value # {}
        /\ code.numberOfVariable >= 1

\* the value at x of the univariate polynomial with the dense coefficient list a
UniCall(q, a, x) == SeqSum(List([k \in 1..Len(a) |-> a[k] * IntPow(x, k - 1)])) % q

\* the frames that have built evaluation2 and are in their loop
InterpolationLoops == {j \in InterpolationFrames : stack[j].pc = "loop"}

\* C22: encode and decode use the same order of the points: at a level
\* with v variables left, entry j + i*q^(v-1) of the table is where encode
\* puts the point whose variable v-1 is the i-th element of the field and
\* whose other variables are at inner position j, and the interpolant the
\* decoder builds for inner position j has that entry as its value at the
\* i-th element
C22_SameDomainOrder ==
    \A n \in InterpolationLoops :
        LET f  == stack[n]
            v  == f.numberOfVariable
            nq == IntPow(f.q, v - 1)
            xcordinate == FieldList(f.finiteField)
            outer == Tuples(xcordinate, v)
            inner == Tuples(xcordinate, v - 1)
        IN /\ Len(f.evaluation) = f.q * nq
           /\ Len(f.evaluation2) = nq
           /\ \A i \in 0..(f.q - 1), j \in 0..(nq - 1) :
                 /\ outer[j + i * nq + 1] = inner[j + 1] \o <<xcordinate[i + 1]>>
                 /\ UniCall(f.q, f.evaluation2[j + 1], xcordinate[i + 1])
                       = f.evaluation[j + i * nq + 1]

\* the call for the table of the docstring, with two variables left, has
\* built its interpolants
C22_Witness ==
    /\ InterpolationLoops # {}
    /\ stack[1].evaluation = DoctestTable
    /\ stack[1].numberOfVariable = 2
    /\ stack[1].pc = "loop"

\* the outermost call was made with the table of a polynomial of degree at
\* most order whose exponents are at most q-1
InterpolationOfCodeword ==
    /\ InterpolationFrames # {}
    /\ stack[1].evaluation \in InterpolationCodewords(stack[1].q, stack[1].numberOfVariable,
                                                     stack[1].order)

\* C23: in the recursive case the coefficient list of every inner position
\* has at least d = min(order+1, q) entries and the k-th recursive call,
\* k < d, gets the coefficients of index k; when the table is that of a
\* polynomial of degree <= order with exponents <= q-1, every coefficient
\* of index >= d, which is not passed on, is zero
C23_DroppedCoefficients ==
    \A n \in InterpolationLoops :
        LET f == stack[n]
        IN /\ f.d = Min(f.order + 1, f.q)
           /\ \A j \in 1..Len(f.evaluation2) :
                 /\ Len(f.evaluation2[j]) >= f.d
                 /\ InterpolationOfCodeword =>
                       \A k \in (f.d + 1)..Len(f.evaluation2[j]) : f.evaluation2[j][k] = 0
           /\ n < Len(stack) =>
                 /\ f.k < f.d
                 /\ stack[n + 1].evaluation =
                       List([j \in 1..Len(f.evaluation2) |-> f.evaluation2[j][f.k + 1]])

\* a call for the table of the polynomial of the docstrings, of degree 2
\* in its last variable, is in its second level with lists of d entries
C23_Witness ==
    /\ Len(stack) = 2
    /\ stack[1].evaluation = EvaluationTable(3, 2, DoctestPolynomial)
    /\ InterpolationOfCodeword
    /\ stack[1].d = 3
    /\ stack[1].k = 2
    /\ stack[2].pc = "loop"
    /\ \E j \in 1..Len(stack[1].evaluation2) : Len(stack[1].evaluation2[j]) = 3

\* C24: every call of multivariatePolynomialInterpolation made for a table
\* of length q^m and an order >= 0 has a table of exactly q^numberOfVariable
\* entries and an order >= 0, the k-th recursive call of a frame having
\* order-k with k <= min(order, q-1); so every index k+i*nq read from the
\* table, k < nq, i < q, is in range
C24_TableLengths ==
    \A n \in InterpolationFrames :
        LET f  == stack[n]
            nq == IntPow(f.q, f.numberOfVariable - 1)
        IN /\ Len(f.evaluation) = IntPow(f.q, f.numberOfVariable)
           /\ f.order >= 0
           /\ Len(f.evaluation) >= 1
           /\ f.pc = "loop" =>
                 /\ Len(f.evaluation2) = nq
                 /\ \A k \in 0..(nq - 1), i \in 0..(f.q - 1) :
                       k + i * nq \in 0..(Len(f.evaluation) - 1)
           /\ n > 1 =>
                 /\ stack[n - 1].pc = "loop"
                 /\ stack[n - 1].k <= Min(stack[n - 1].order, f.q - 1)
                 /\ f.order = stack[n - 1].order - stack[n - 1].k

\* the last recursive call of a frame with two variables and order 2 over
\* GF(3) is in progress: it has order 0 and a table of 3 entries
C24_Witness ==
    /\ Len(stack) = 2
    /\ stack[1].q = 3
    /\ stack[1].numberOfVariable = 2
    /\ stack[1].order = 2
    /\ stack[1].k = 2
    /\ stack[2].order = 0
    /\ Len(stack[2].evaluation) = 3

\* C25: for every table of length q^m, codeword or not, the polynomial
\* unencode_nocheck returns has total degree <= r and degree <= q-1 in
\* each variable, so that encode accepts it
C25_DecodedDegree ==
    TableDecoded =>
        LET M == message_space(polynomialEncoder)
        IN /\ degree(decoded) <= code.order
           /\ \A i \in 0..(code.numberOfVariable - 1) : degreeIn(decoded, i) <= code.q - 1
           /\ encode(code, polynomialEncoder, [parent |-> M, terms |-> decoded]).error = ""

\* the polynomials of total degree <= r with exponents <= q-1, to which
\* every polynomial of total degree <= r reduces without change of its table
CodePolynomials(C) ==
    LET S == BoundedExponents(C.q, C.order, C.numberOfVariable)
    IN {{[e |-> e, c |-> f[e]] : e \in {x \in S : f[x] # 0}} : f \in [S -> 0..(C.q - 1)]}

\* T is the evaluation table of a polynomial of total degree <= r
IsCodeword(C, T) ==
    LET baseFieldTuple == Tuples(FieldList(C.base_field), C.numberOfVariable)
    IN \E p \in CodePolynomials(C) :
          \A i \in 1..Len(baseFieldTuple) : PolyCall(C.q, p, baseFieldTuple[i]) = T[i]

\* the codewords of the code can be listed
SmallCode ==
    Cardinality(BoundedExponents(code.q, code.order, code.numberOfVariable)) <= MaxDimension

\* C26: the round-trip check is sound and complete: for every table T of
\* length q^m, encode(unencode_nocheck(T)) returns T if and only if T is
\* the evaluation table of a polynomial of total degree <= r
C26_RoundTripCheck ==
    (TableDecoded /\ SmallCode) =>
        LET M  == message_space(polynomialEncoder)
            re == encode(code, polynomialEncoder, [parent |-> M, terms |-> decoded])
        IN (re.error = "" /\ re.value = codeword) <=> IsCodeword(code, codeword)

\* the table of the docstrings' polynomial, of degree r = 2 over GF(3) in
\* two variables, has been decoded, and is found to be a codeword
C26_Witness ==
    /\ TableDecoded
    /\ SmallCode
    /\ DoctestCode
    /\ codeword = EvaluationTable(3, 2, DoctestPolynomial)
    /\ decoded = DoctestPolynomial
    /\ IsCodeword(code, codeword)

\* the docstring's table, which is no codeword, has been decoded
C26_NotACodeword ==
    /\ TableDecoded
    /\ SmallCode
    /\ DoctestCode
    /\ codeword = DoctestTable
    /\ ~IsCodeword(code, codeword)

\* the coefficient vectors of length n over GF(q)
CoefficientVectors(q, n) == {List(f) : f \in [1..n -> 0..(q - 1)]}

\* the codewords of the vector encoder: the vectors it encodes to
VectorCodewords ==
    {Encoder_encode(code, vectorEncoder, w).value :
        w \in CoefficientVectors(code.q, nrows(generator_matrix(vectorEncoder)))}

\* C27: the rows of the generator matrix are linearly independent: the
\* matrix has dimension rows, only the zero vector encodes to the zero
\* codeword, distinct coefficient vectors encode to distinct codewords, and
\* the code has exactly q^dimension codewords
C27_IndependentRows ==
    (vectorEncoder.built /\ SmallCode) =>
        LET G == generator_matrix(vectorEncoder)
            k == nrows(G)
            W == CoefficientVectors(code.q, k)
        IN /\ k = code.dimension
           /\ \A w \in W :
                 (\A i \in 1..Len(w) : w[i] = 0)
                    \/ (\E i \in 1..ncols(G) :
                           Encoder_encode(code, vectorEncoder, w).value[i] # 0)
           /\ Cardinality(VectorCodewords) = IntPow(code.q, code.dimension)

\* the vector encoder of the code of the docstring, of dimension 6, is
\* built: its 729 coefficient vectors give 729 codewords
C27_Witness ==
    /\ vectorEncoder.built
    /\ SmallCode
    /\ DoctestCode
    /\ code.dimension = 6
    /\ Cardinality(VectorCodewords) = 729

\* the code object the constructor built from the arguments it was given
Constructed ==
    CASE args.cls = "QAry" ->
            QAryReedMullerCode_init(args.baseField, args.order, args.numberOfVariable).code
      [] args.cls = "Binary" ->
            BinaryReedMullerCode_init(args.order, args.numberOfVariable).code
      [] args.cls = "ReedMullerCode" ->
            ReedMullerCode(args.baseField, args.order, args.numberOfVariable).code
      [] OTHER -> NoCode

\* C29: the generator matrix is built once, by the constructor of the
\* vector encoder: every call of generator_matrix returns that matrix, and
\* no call of encode, unencode_nocheck, generator_matrix or of an encoder's
\* constructor changes q, order, numberOfVariable or dimension of the code
\* or an entry of the matrix
C29_BuiltOnce ==
    [][/\ code.cls # "none" => code' = code
       /\ code'.cls # "none" => code' = Constructed'
       /\ vectorEncoder.built => vectorEncoder' = vectorEncoder
       /\ vectorEncoder'.built =>
             vectorEncoder'.generator = ReedMullerVectorEncoder_init(code')
       /\ returned'.fn = "generator_matrix" =>
             /\ returned'.value = vectorEncoder.generator
             /\ returned'.value = vectorEncoder'.generator]_vars

\* generator_matrix has returned the matrix of the docstring after a call
\* of encode and the construction of the other encoder
C29_Witness ==
    /\ returned.fn = "generator_matrix"
    /\ returned.value = DoctestMatrix
    /\ polynomialEncoder.built
    /\ calls.caller[1].pc = "returned"
    /\ calls.caller[1].op = "encode"

\* C28: the interpolation is linear over the field on all tables: for
\* tables T1, T2 of length q^m, codewords or not, and a scalar lambda, the
\* polynomial returned for T1 + lambda*T2 is the one returned for T1 plus
\* lambda times the one returned for T2
C28_Linearity ==
    InterpolationReturned =>
        LET q  == returned.q
            m  == returned.numberOfVariable
            r  == returned.order
            R  == returned.R
            T1 == returned.evaluation
        IN \A T2 \in InterpolationTables(q, m) \cup InterpolationCodewords(q, m, r),
              lambda \in 0..(q - 1) :
              multivariatePolynomialInterpolation(
                  VecAdd(q, T1, VecScale(q, lambda, T2)), m, r, q, q, R)
                = PolyAdd(q, returned.value,
                          PolyMul(q, PolyConst(m, lambda),
                                  multivariatePolynomialInterpolation(T2, m, r, q, q, R)))

\* the call for the docstring's table, which is no codeword, with q = 3,
\* two variables and order 2 has returned
C28_Witness ==
    /\ InterpolationReturned
    /\ returned.evaluation = DoctestTable
    /\ returned.order = 2
    /\ returned.value = DoctestDecoded

\* the string pieces name the order and then the number of variables
NamesOrderAndVariables(pieces, C) ==
    \E i, j \in 1..Len(pieces) :
        /\ i < j
        /\ pieces[i] = ToString(C.order)
        /\ pieces[j] = ToString(C.numberOfVariable)

\* C30: for every constructed code, binary or q-ary, _latex_ raises no error
\* (the format string has as many specifiers as values are supplied) and
\* returns a string naming the order and the number of variables
C30_LatexReturns ==
    returned.fn = "_latex_" =>
        /\ returned.error = ""
        /\ NamesOrderAndVariables(returned.value, code)

\* _latex_ of a q-ary code raises no error and names the order and the number
\* of variables after q
QAryLatexReturns ==
    (returned.fn = "_latex_" /\ code.cls = "QAry") =>
        /\ returned.error = ""
        /\ returned.value[1] = ToString(code.q)
        /\ NamesOrderAndVariables(Tail(returned.value), code)

\* _latex_ of every binary code raises the TypeError of a value left over
BinaryLatexRaises ==
    (returned.fn = "_latex_" /\ code.cls = "Binary") =>
        returned.error = "not all arguments converted during string formatting"

=========================================================================
